---- MODULE Spec2Model ----
(***************************************************************************)
(* nestjs-crypto: the validated encryption / hashing contract layer.       *)
(*                                                                         *)
(* Values follow the JavaScript values of the source: a string is the      *)
(* sequence of its UTF-16 code units, a Buffer the sequence of its bytes.   *)
(* The platform cipher ('aes-256-cbc' of node:crypto) is modelled by what   *)
(* it computes: AES-256 (FIPS-197) in CBC mode with PKCS#7 padding.         *)
(***************************************************************************)
EXTENDS Integers, Sequences, FiniteSets, TLC

(***************************************************************************)
(* Bytes and sequences                                                     *)
(***************************************************************************)
RECURSIVE BitXor(_, _, _)
BitXor(a, b, n) ==
  IF n = 0 THEN 0
  ELSE (((a % 2) + (b % 2)) % 2) + 2 * BitXor(a \div 2, b \div 2, n - 1)

\* a function over 1..n as an evaluated tuple
Tup(f) == f \o <<>>

\* XorTable[a + 1][b + 1] = a XOR b
XorTable ==
  Tup([a \in 1..256 |-> Tup([b \in 1..256 |-> BitXor(a - 1, b - 1, 8)])])

Xor(a, b) == XorTable[a + 1][b + 1]

XorBytes(x, y) == Tup([i \in 1..Len(x) |-> Xor(x[i], y[i])])

Repeat(v, n) == Tup([i \in 1..n |-> v])

\* the concatenation of the sequences ss[lo], ..., ss[hi]
RECURSIVE FlattenRange(_, _, _)
FlattenRange(ss, lo, hi) ==
  IF lo > hi THEN <<>>
  ELSE IF lo = hi THEN ss[lo]
  ELSE LET mid == (lo + hi) \div 2
       IN FlattenRange(ss, lo, mid) \o FlattenRange(ss, mid + 1, hi)

(***************************************************************************)
(* AES-256 block cipher (FIPS-197), the primitive behind createCipheriv /  *)
(* createDecipheriv with algorithm 'aes-256-cbc'                           *)
(***************************************************************************)
SBox ==
  <<
        99, 124, 119, 123, 242, 107, 111, 197,  48,   1, 103,  43, 254, 215, 171, 118,
       202, 130, 201, 125, 250,  89,  71, 240, 173, 212, 162, 175, 156, 164, 114, 192,
       183, 253, 147,  38,  54,  63, 247, 204,  52, 165, 229, 241, 113, 216,  49,  21,
         4, 199,  35, 195,  24, 150,   5, 154,   7,  18, 128, 226, 235,  39, 178, 117,
         9, 131,  44,  26,  27, 110,  90, 160,  82,  59, 214, 179,  41, 227,  47, 132,
        83, 209,   0, 237,  32, 252, 177,  91, 106, 203, 190,  57,  74,  76,  88, 207,
       208, 239, 170, 251,  67,  77,  51, 133,  69, 249,   2, 127,  80,  60, 159, 168,
        81, 163,  64, 143, 146, 157,  56, 245, 188, 182, 218,  33,  16, 255, 243, 210,
       205,  12,  19, 236,  95, 151,  68,  23, 196, 167, 126,  61, 100,  93,  25, 115,
        96, 129,  79, 220,  34,  42, 144, 136,  70, 238, 184,  20, 222,  94,  11, 219,
       224,  50,  58,  10,  73,   6,  36,  92, 194, 211, 172,  98, 145, 149, 228, 121,
       231, 200,  55, 109, 141, 213,  78, 169, 108,  86, 244, 234, 101, 122, 174,   8,
       186, 120,  37,  46,  28, 166, 180, 198, 232, 221, 116,  31,  75, 189, 139, 138,
       112,  62, 181, 102,  72,   3, 246,  14,  97,  53,  87, 185, 134, 193,  29, 158,
       225, 248, 152,  17, 105, 217, 142, 148, 155,  30, 135, 233, 206,  85,  40, 223,
       140, 161, 137,  13, 191, 230,  66, 104,  65, 153,  45,  15, 176,  84, 187,  22 >>

\* the inverse table: InvSBox[SBox[x + 1] + 1] = x
InvSBox ==
  <<
      82,   9, 106, 213,  48,  54, 165,  56, 191,  64, 163, 158, 129, 243, 215, 251,
     124, 227,  57, 130, 155,  47, 255, 135,  52, 142,  67,  68, 196, 222, 233, 203,
      84, 123, 148,  50, 166, 194,  35,  61, 238,  76, 149,  11,  66, 250, 195,  78,
       8,  46, 161, 102,  40, 217,  36, 178, 118,  91, 162,  73, 109, 139, 209,  37,
     114, 248, 246, 100, 134, 104, 152,  22, 212, 164,  92, 204,  93, 101, 182, 146,
     108, 112,  72,  80, 253, 237, 185, 218,  94,  21,  70,  87, 167, 141, 157, 132,
     144, 216, 171,   0, 140, 188, 211,  10, 247, 228,  88,   5, 184, 179,  69,   6,
     208,  44,  30, 143, 202,  63,  15,   2, 193, 175, 189,   3,   1,  19, 138, 107,
      58, 145,  17,  65,  79, 103, 220, 234, 151, 242, 207, 206, 240, 180, 230, 115,
     150, 172, 116,  34, 231, 173,  53, 133, 226, 249,  55, 232,  28, 117, 223, 110,
      71, 241,  26, 113,  29,  41, 197, 137, 111, 183,  98,  14, 170,  24, 190,  27,
     252,  86,  62,  75, 198, 210, 121,  32, 154, 219, 192, 254, 120, 205,  90, 244,
      31, 221, 168,  51, 136,   7, 199,  49, 177,  18,  16,  89,  39, 128, 236,  95,
      96,  81, 127, 169,  25, 181,  74,  13,  45, 229, 122, 159, 147, 201, 156, 239,
     160, 224,  59,  77, 174,  42, 245, 176, 200, 235, 187,  60, 131,  83, 153,  97,
      23,  43,   4, 126, 186, 119, 214,  38, 225, 105,  20,  99,  85,  33,  12, 125 >>

\* Mul[k][a + 1] = k * a in GF(2^8), for the multipliers k of MixColumns and
\* InvMixColumns
Mul ==
  LET xtime(a) == IF a >= 128 THEN Xor((2 * a) % 256, 27) ELSE 2 * a
      term(k, bit, a) == IF (k \div bit) % 2 = 1 THEN a ELSE 0
      times(k, a) ==
        Xor(Xor(term(k, 1, a), term(k, 2, xtime(a))),
            Xor(term(k, 4, xtime(xtime(a))),
                term(k, 8, xtime(xtime(xtime(a))))))
  IN Tup([k \in 1..14 |-> Tup([a \in 1..256 |-> times(k, a - 1)])])

\* the eight words that follow the eight words p of the schedule, n being
\* the index of the first of them divided by 8
NextWords(p, n) ==
  LET Rcon == <<1, 2, 4, 8, 16, 32, 64>>
      SubWord(w) == Tup([i \in 1..4 |-> SBox[w[i] + 1]])
      RotWord(w) == <<w[2], w[3], w[4], w[1]>>
      w1 == XorBytes(p[1], XorBytes(SubWord(RotWord(p[8])), <<Rcon[n], 0, 0, 0>>))
      w2 == XorBytes(p[2], w1)
      w3 == XorBytes(p[3], w2)
      w4 == XorBytes(p[4], w3)
      w5 == XorBytes(p[5], SubWord(w4))
      w6 == XorBytes(p[6], w5)
      w7 == XorBytes(p[7], w6)
      w8 == XorBytes(p[8], w7)
  IN <<w1, w2, w3, w4, w5, w6, w7, w8>>

\* w holds the words 0..8n-1 of the schedule; 60 words for a 256-bit key
RECURSIVE ExpandKey(_, _)
ExpandKey(w, n) ==
  IF n = 8 THEN SubSeq(w, 1, 60)
  ELSE LET next == w \o NextWords(SubSeq(w, 8 * n - 7, 8 * n), n)
       IN IF Len(next) = 8 * n + 8 THEN ExpandKey(next, n + 1) ELSE <<>>

KeySchedule(key) ==
  ExpandKey(Tup([i \in 1..8 |-> SubSeq(key, 4 * i - 3, 4 * i)]), 1)

RoundKey(w, r) ==
  Tup([j \in 1..16 |-> w[4 * r + ((j - 1) \div 4) + 1][((j - 1) % 4) + 1]])

SubBytes(s) == Tup([j \in 1..16 |-> SBox[s[j] + 1]])
InvSubBytes(s) == Tup([j \in 1..16 |-> InvSBox[s[j] + 1]])

ShiftRows(s) ==
  Tup([j \in 1..16 |->
     LET r == (j - 1) % 4
         c == (j - 1) \div 4
     IN s[r + 4 * ((c + r) % 4) + 1]])

InvShiftRows(s) ==
  Tup([j \in 1..16 |->
     LET r == (j - 1) % 4
         c == (j - 1) \div 4
     IN s[r + 4 * ((c + 4 - r) % 4) + 1]])

MixColumns(s) ==
  Tup([j \in 1..16 |->
     LET r == (j - 1) % 4
         c == (j - 1) \div 4
         a(k) == s[4 * c + ((r + k) % 4) + 1]
     IN Xor(Xor(Mul[2][a(0) + 1], Mul[3][a(1) + 1]), Xor(a(2), a(3)))])

InvMixColumns(s) ==
  Tup([j \in 1..16 |->
     LET r == (j - 1) % 4
         c == (j - 1) \div 4
         a(k) == s[4 * c + ((r + k) % 4) + 1]
     IN Xor(Xor(Mul[14][a(0) + 1], Mul[11][a(1) + 1]),
            Xor(Mul[13][a(2) + 1], Mul[9][a(3) + 1]))])

\* round r of the cipher, 1 <= r <= 13
Round(s, w, r) == XorBytes(MixColumns(ShiftRows(SubBytes(s))), RoundKey(w, r))

\* the rounds lo..hi applied to the state s, in ascending order
RECURSIVE Rounds(_, _, _, _)
Rounds(s, w, lo, hi) ==
  IF lo = hi THEN Round(s, w, lo)
  ELSE LET mid == (lo + hi) \div 2
           half == Rounds(s, w, lo, mid)
       IN IF Len(half) = 16 THEN Rounds(half, w, mid + 1, hi) ELSE <<>>

\* one block under an expanded key
Cipher(block, w) ==
  LET s13 == Rounds(XorBytes(block, RoundKey(w, 0)), w, 1, 13)
  IN IF Len(s13) = 16
       THEN XorBytes(ShiftRows(SubBytes(s13)), RoundKey(w, 14))
       ELSE <<>>

\* round r of the inverse cipher, 13 >= r >= 1
InvRound(s, w, r) ==
  InvMixColumns(XorBytes(InvSubBytes(InvShiftRows(s)), RoundKey(w, r)))

\* the inverse rounds hi..lo applied to the state s, in descending order
RECURSIVE InvRounds(_, _, _, _)
InvRounds(s, w, hi, lo) ==
  IF lo = hi THEN InvRound(s, w, hi)
  ELSE LET mid == (lo + hi + 1) \div 2
           half == InvRounds(s, w, hi, mid)
       IN IF Len(half) = 16 THEN InvRounds(half, w, mid - 1, lo) ELSE <<>>

InvCipher(block, w) ==
  LET s1 == InvRounds(XorBytes(block, RoundKey(w, 14)), w, 13, 1)
  IN IF Len(s1) = 16
       THEN XorBytes(InvSubBytes(InvShiftRows(s1)), RoundKey(w, 0))
       ELSE <<>>

(***************************************************************************)
(* CBC mode with PKCS#7 padding                                            *)
(***************************************************************************)
BlockSize == 16

Pkcs7Pad(bytes) ==
  LET n == BlockSize - (Len(bytes) % BlockSize)
  IN bytes \o Repeat(n, n)

\* TRUE iff the deciphered bytes end in n bytes of value n, 1 <= n <= 16
Pkcs7Ok(bytes) ==
  /\ Len(bytes) > 0
  /\ LET n == bytes[Len(bytes)]
     IN /\ n >= 1
        /\ n <= BlockSize
        /\ \A i \in (Len(bytes) - n + 1)..Len(bytes) : bytes[i] = n

Pkcs7Unpad(bytes) == SubSeq(bytes, 1, Len(bytes) - bytes[Len(bytes)])

RECURSIVE CbcEncryptBlocks(_, _, _)
CbcEncryptBlocks(plain, w, prev) ==
  IF plain = <<>> THEN <<>>
  ELSE LET c == Cipher(XorBytes(SubSeq(plain, 1, BlockSize), prev), w)
       IN c \o CbcEncryptBlocks(SubSeq(plain, BlockSize + 1, Len(plain)), w, c)

RECURSIVE CbcDecryptBlocks(_, _, _)
CbcDecryptBlocks(ct, w, prev) ==
  IF ct = <<>> THEN <<>>
  ELSE LET c == SubSeq(ct, 1, BlockSize)
       IN XorBytes(InvCipher(c, w), prev)
            \o CbcDecryptBlocks(SubSeq(ct, BlockSize + 1, Len(ct)), w, c)

\* CbcEncrypt with a block of zeros in the place of the IV
CbcEncrypt_zeroIv(bytes, key, iv) ==
  LET w == KeySchedule(key)
  IN IF Len(w) = 60
       THEN CbcEncryptBlocks(Pkcs7Pad(bytes), w, Repeat(0, BlockSize))
       ELSE <<>>

\* cipher.update(bytes) + cipher.final(): the ciphertext bytes
CbcEncrypt(bytes, key, iv) ==
  LET w == KeySchedule(key)
  IN IF Len(w) = 60 THEN CbcEncryptBlocks(Pkcs7Pad(bytes), w, iv) ELSE <<>>

\* decipher.update(ct) + decipher.final(): the plaintext bytes, or a failure
\* of final() ("wrong final block length", "bad decrypt")
CbcDecrypt(ct, key, iv) ==
  IF Len(ct) = 0 \/ Len(ct) % BlockSize # 0
    THEN [ok |-> FALSE, bytes |-> <<>>]
    ELSE LET w == KeySchedule(key)
             p == IF Len(w) = 60 THEN CbcDecryptBlocks(ct, w, iv) ELSE <<>>
         IN IF Pkcs7Ok(p)
              THEN [ok |-> TRUE, bytes |-> Pkcs7Unpad(p)]
              ELSE [ok |-> FALSE, bytes |-> <<>>]

(***************************************************************************)
(* JavaScript values.  A string is the sequence of its UTF-16 code units.  *)
(***************************************************************************)
Undefined == [t |-> "undefined"]
Str(units) == [t |-> "string", s |-> units]
Buf(bytes) == [t |-> "buffer", b |-> bytes]
\* a number: finite (twice = 2 * value, so halves are representable), NaN,
\* Infinity or -Infinity
Num(n) == [t |-> "number", kind |-> "finite", twice |-> 2 * n]
Half(twice) == [t |-> "number", kind |-> "finite", twice |-> twice]
NonFinite(kind) == [t |-> "number", kind |-> kind, twice |-> 0]

Bool(b) == [t |-> "boolean", v |-> b]

\* typeof value
TypeOf(v) == IF v.t = "buffer" THEN "object" ELSE v.t

\* the condition of `value ? a : b`
Truthy(v) ==
  CASE v.t = "undefined" -> FALSE
    [] v.t = "string" -> Len(v.s) > 0
    [] v.t = "number" -> v.kind # "NaN" /\ ~(v.kind = "finite" /\ v.twice = 0)
    [] OTHER -> TRUE

\* WhiteSpace and LineTerminator code units, as String.prototype.trim strips
IsWhiteSpace(c) ==
  \/ c \in {9, 10, 11, 12, 13, 32, 160, 5760, 8232, 8233, 8239, 8287, 12288,
            65279}
  \/ c \in 8192..8202

\* s.trim(): s from its first to its last character that is not white space
Trim(s) ==
  LET solid == {i \in 1..Len(s) : ~IsWhiteSpace(s[i])}
  IN IF solid = {} THEN <<>>
     ELSE SubSeq(s, CHOOSE i \in solid : \A j \in solid : i <= j,
                    CHOOSE i \in solid : \A j \in solid : i >= j)

(***************************************************************************)
(* Hex and UTF-8 conversions of Buffer                                     *)
(***************************************************************************)
IsDigit(c) == c \in 48..57
IsHexDigit(c) == c \in 48..57 \/ c \in 65..70 \/ c \in 97..102

\* buffer.toString('hex'): two lowercase digits a byte
HexEncode(bytes) ==
  LET HexChar(n) == IF n < 10 THEN 48 + n ELSE 87 + n
  IN Tup([i \in 1..(2 * Len(bytes)) |->
            LET b == bytes[(i + 1) \div 2]
            IN IF i % 2 = 1 THEN HexChar(b \div 16) ELSE HexChar(b % 16)])

\* Buffer.from(s, 'hex'): decoding stops at the first pair that is not two
\* hexadecimal digits, a trailing single digit is dropped
HexDecode(s) ==
  LET HexVal(c) == IF c \in 48..57 THEN c - 48
                   ELSE IF c \in 65..70 THEN c - 55
                   ELSE c - 87
      pairs == Len(s) \div 2
      Bad(i) == ~(IsHexDigit(s[2 * i - 1]) /\ IsHexDigit(s[2 * i]))
      n == IF \E i \in 1..pairs : Bad(i)
             THEN (CHOOSE i \in 1..pairs :
                     Bad(i) /\ \A j \in 1..(i - 1) : ~Bad(j)) - 1
             ELSE pairs
  IN Tup([i \in 1..n |-> 16 * HexVal(s[2 * i - 1]) + HexVal(s[2 * i])])

IsHighSurrogate(c) == c \in 55296..56319
IsLowSurrogate(c) == c \in 56320..57343

Utf8OfCodePoint(cp) ==
  IF cp < 128 THEN <<cp>>
  ELSE IF cp < 2048 THEN <<192 + (cp \div 64), 128 + (cp % 64)>>
  ELSE IF cp < 65536
    THEN <<224 + (cp \div 4096), 128 + ((cp \div 64) % 64), 128 + (cp % 64)>>
  ELSE <<240 + (cp \div 262144), 128 + ((cp \div 4096) % 64),
         128 + ((cp \div 64) % 64), 128 + (cp % 64)>>

\* Buffer.from(s, 'utf8'): a surrogate pair is one code point, an unpaired
\* surrogate is encoded as U+FFFD
Utf8Encode(s) ==
  LET Paired(i) == /\ i >= 1
                   /\ i < Len(s)
                   /\ IsHighSurrogate(s[i])
                   /\ IsLowSurrogate(s[i + 1])
      At(i) == IF Paired(i)
                 THEN Utf8OfCodePoint(65536 + (s[i] - 55296) * 1024
                                        + (s[i + 1] - 56320))
               ELSE IF Paired(i - 1) THEN <<>>
               ELSE IF IsHighSurrogate(s[i]) \/ IsLowSurrogate(s[i])
                 THEN <<239, 191, 189>>
               ELSE Utf8OfCodePoint(s[i])
  IN FlattenRange(Tup([i \in 1..Len(s) |-> At(i)]), 1, Len(s))

\* the number of continuation bytes a lead byte announces (0 for ASCII, -1
\* for a byte that cannot start a sequence)
Utf8Need(b) ==
  IF b < 128 THEN 0
  ELSE IF b \in 194..223 THEN 1
  ELSE IF b \in 224..239 THEN 2
  ELSE IF b \in 240..244 THEN 3
  ELSE -1

\* the length of the longest well-formed prefix of the sequence led by
\* bytes[1], at most 1 + need
RECURSIVE Utf8Run(_, _, _)
Utf8Run(bytes, k, need) ==
  IF k > need \/ Len(bytes) < k + 1 THEN k
  ELSE LET c == bytes[k + 1]
           \* the range of the first continuation byte depends on the lead
           lo == IF k > 1 THEN 128
                 ELSE IF bytes[1] = 224 THEN 160
                 ELSE IF bytes[1] = 240 THEN 144
                 ELSE 128
           hi == IF k > 1 THEN 191
                 ELSE IF bytes[1] = 237 THEN 159
                 ELSE IF bytes[1] = 244 THEN 143
                 ELSE 191
       IN IF c >= lo /\ c <= hi THEN Utf8Run(bytes, k + 1, need) ELSE k

\* buffer.toString('utf8'): every ill-formed sequence (its maximal
\* well-formed prefix) is decoded as one U+FFFD
RECURSIVE Utf8Decode(_)
Utf8Decode(bytes) ==
  IF bytes = <<>> THEN <<>>
  ELSE LET need == Utf8Need(bytes[1])
           cp == IF need = 1 THEN (bytes[1] - 192) * 64 + (bytes[2] - 128)
                 ELSE IF need = 2
                   THEN (bytes[1] - 224) * 4096 + (bytes[2] - 128) * 64
                          + (bytes[3] - 128)
                 ELSE (bytes[1] - 240) * 262144 + (bytes[2] - 128) * 4096
                        + (bytes[3] - 128) * 64 + (bytes[4] - 128)
           units == IF cp < 65536 THEN <<cp>>
                    ELSE <<55296 + ((cp - 65536) \div 1024),
                           56320 + ((cp - 65536) % 1024)>>
       IN IF need = 0 THEN <<bytes[1]>> \o Utf8Decode(Tail(bytes))
          ELSE IF need = -1 THEN <<65533>> \o Utf8Decode(Tail(bytes))
          ELSE LET run == Utf8Run(bytes, 1, need)
               IN IF run = need + 1
                    THEN units \o Utf8Decode(SubSeq(bytes, run + 1, Len(bytes)))
                    ELSE <<65533>>
                           \o Utf8Decode(SubSeq(bytes, run + 1, Len(bytes)))

(***************************************************************************)
(* Error taxonomy (lib/errors/crypto.error.ts).  A message is the sequence *)
(* of the parts of its template string.                                    *)
(***************************************************************************)
NoCause == [name |-> "undefined", code |-> "", message |-> <<>>]

\* an error as the `cause` of another one
AsCause(e) == [name |-> e.name, code |-> e.code, message |-> e.message]

CryptoError(name, message, code, cause) ==
  [name |-> name, message |-> message, code |-> code, cause |-> cause]

ValidationError(message, cause) ==
  CryptoError("ValidationError", message, "VALIDATION_ERROR", cause)
EncryptionError(message, cause) ==
  CryptoError("EncryptionError", message, "ENCRYPTION_ERROR", cause)
DecryptionError(message, cause) ==
  CryptoError("DecryptionError", message, "DECRYPTION_ERROR", cause)
HashingError(message, cause) ==
  CryptoError("HashingError", message, "HASHING_ERROR", cause)
InvalidKeyError(message, cause) ==
  CryptoError("InvalidKeyError", message, "INVALID_KEY_ERROR", cause)

\* an error raised by the platform or by the bcrypt library
NativeError(name, code, message) ==
  [name |-> name, message |-> message, code |-> code, cause |-> NoCause]

\* error instanceof Class
InstanceOf(e, class) == e.name = class

\* how a function ends: by returning a value or by throwing
Returned(v) == [threw |-> FALSE, value |-> v]
Threw(e) == [threw |-> TRUE, error |-> e]

(***************************************************************************)
(* Validation helpers (lib/utils/validation.ts)                            *)
(***************************************************************************)
\* validateNonEmptyString that tests value.length without trimming
validateNonEmptyString_untrimmed(value, fieldName) ==
  IF TypeOf(value) # "string"
    THEN Threw(ValidationError(
           <<fieldName, " must be a string, received ", TypeOf(value)>>,
           NoCause))
  ELSE IF Len(value.s) = 0
    THEN Threw(ValidationError(<<fieldName, " cannot be empty">>, NoCause))
  ELSE Returned(Undefined)

validateNonEmptyString(value, fieldName) ==
  IF TypeOf(value) # "string"
    THEN Threw(ValidationError(
           <<fieldName, " must be a string, received ", TypeOf(value)>>,
           NoCause))
  ELSE IF Len(Trim(value.s)) = 0
    THEN Threw(ValidationError(<<fieldName, " cannot be empty">>, NoCause))
  ELSE Returned(Undefined)

validatePositiveNumber(value, fieldName) ==
  IF TypeOf(value) # "number"
    THEN Threw(ValidationError(
           <<fieldName, " must be a number, received ", TypeOf(value)>>,
           NoCause))
  ELSE IF value.kind # "finite"
    THEN Threw(ValidationError(<<fieldName, " must be a finite number">>,
                               NoCause))
  ELSE IF value.twice <= 0
    THEN Threw(ValidationError(<<fieldName, " must be positive">>, NoCause))
  ELSE Returned(Undefined)

\* validateIntegerInRange with the bounds themselves out of the range
validateIntegerInRange_exclusive(value, fieldName, min, max) ==
  LET positive == validatePositiveNumber(value, fieldName)
  IN IF positive.threw THEN positive
     ELSE IF value.twice % 2 # 0
       THEN Threw(ValidationError(<<fieldName, " must be an integer">>,
                                  NoCause))
     ELSE IF value.twice <= 2 * min \/ value.twice >= 2 * max
       THEN Threw(ValidationError(
              <<fieldName, " must be between ", ToString(min), " and ",
                ToString(max), ", received ", ToString(value.twice \div 2)>>,
              NoCause))
     ELSE Returned(Undefined)

validateIntegerInRange(value, fieldName, min, max) ==
  LET positive == validatePositiveNumber(value, fieldName)
  IN IF positive.threw THEN positive
     ELSE IF value.twice % 2 # 0
       THEN Threw(ValidationError(<<fieldName, " must be an integer">>,
                                  NoCause))
     ELSE IF value.twice < 2 * min \/ value.twice > 2 * max
       THEN Threw(ValidationError(
              <<fieldName, " must be between ", ToString(min), " and ",
                ToString(max), ", received ", ToString(value.twice \div 2)>>,
              NoCause))
     ELSE Returned(Undefined)

\* validateAndConvertToBuffer that cuts a longer buffer down to expectedLength
validateAndConvertToBuffer_truncating(value, fieldName, expectedLength) ==
  IF value = Undefined THEN Returned(Undefined)
  ELSE IF value.t # "buffer" /\ TypeOf(value) # "string"
    THEN Threw(ValidationError(
           <<fieldName, " must be a Buffer or hex string, received ",
             TypeOf(value)>>, NoCause))
  ELSE IF value.t = "string" /\ \E i \in 1..Len(value.s) : ~IsHexDigit(value.s[i])
    THEN Threw(InvalidKeyError(
           <<fieldName, " must be a valid hexadecimal string">>, NoCause))
  ELSE IF value.t = "string" /\ Len(value.s) % 2 # 0
    THEN Threw(InvalidKeyError(
           <<fieldName, " hex string must have even length">>, NoCause))
  ELSE LET buffer == IF value.t = "buffer" THEN value.b ELSE HexDecode(value.s)
       IN IF expectedLength # Undefined
             /\ Len(buffer) < expectedLength.twice \div 2
            THEN Threw(InvalidKeyError(
                   <<fieldName, " must be ",
                     ToString(expectedLength.twice \div 2),
                     " bytes, received ", ToString(Len(buffer)), " bytes">>,
                   NoCause))
          ELSE IF expectedLength # Undefined
            THEN Returned(Buf(SubSeq(buffer, 1, expectedLength.twice \div 2)))
            ELSE Returned(Buf(buffer))

\* expectedLength is optional: undefined, or a number of bytes
validateAndConvertToBuffer(value, fieldName, expectedLength) ==
  IF value = Undefined THEN Returned(Undefined)
  ELSE IF value.t # "buffer" /\ TypeOf(value) # "string"
    THEN Threw(ValidationError(
           <<fieldName, " must be a Buffer or hex string, received ",
             TypeOf(value)>>, NoCause))
  ELSE IF value.t = "string" /\ \E i \in 1..Len(value.s) : ~IsHexDigit(value.s[i])
    THEN Threw(InvalidKeyError(
           <<fieldName, " must be a valid hexadecimal string">>, NoCause))
  ELSE IF value.t = "string" /\ Len(value.s) % 2 # 0
    THEN Threw(InvalidKeyError(
           <<fieldName, " hex string must have even length">>, NoCause))
  ELSE LET buffer == IF value.t = "buffer" THEN value.b ELSE HexDecode(value.s)
       IN IF expectedLength # Undefined /\ Num(Len(buffer)) # expectedLength
            THEN Threw(InvalidKeyError(
                   <<fieldName, " must be ",
                     ToString(expectedLength.twice \div 2),
                     " bytes, received ", ToString(Len(buffer)), " bytes">>,
                   NoCause))
            ELSE Returned(Buf(buffer))

\* bcryptRegex without the anchor at the end of the string
bcryptRegex_unanchored(s) ==
  /\ Len(s) >= 60
  /\ s[1] = 36
  /\ s[2] = 50
  /\ s[3] \in {97, 98, 121}
  /\ s[4] = 36
  /\ IsDigit(s[5])
  /\ IsDigit(s[6])
  /\ s[7] = 36
  /\ \A i \in 8..60 :
       s[i] \in {46, 47} \/ s[i] \in 48..57 \/ s[i] \in 65..90 \/ s[i] \in 97..122

\* /^\$2[aby]\$\d{2}\$[./A-Za-z0-9]{53}$/
bcryptRegex(s) ==
  /\ Len(s) = 60
  /\ s[1] = 36
  /\ s[2] = 50
  /\ s[3] \in {97, 98, 121}
  /\ s[4] = 36
  /\ IsDigit(s[5])
  /\ IsDigit(s[6])
  /\ s[7] = 36
  /\ \A i \in 8..60 :
       s[i] \in {46, 47} \/ s[i] \in 48..57 \/ s[i] \in 65..90 \/ s[i] \in 97..122

validateBcryptHash(hash) ==
  LET nonEmpty == validateNonEmptyString(hash, "hash")
  IN IF nonEmpty.threw THEN nonEmpty
     ELSE IF ~bcryptRegex(hash.s)
       THEN Threw(ValidationError(
              <<"Invalid bcrypt hash format. Expected format: $2a$10$...">>,
              NoCause))
     ELSE Returned(Undefined)

\* /^[0-9a-fA-F]+$/
hexRegex(s) == Len(s) >= 1 /\ \A i \in 1..Len(s) : IsHexDigit(s[i])

validateEncryptedData(data) ==
  LET nonEmpty == validateNonEmptyString(data, "encrypted data")
  IN IF nonEmpty.threw THEN nonEmpty
     ELSE IF ~hexRegex(data.s)
       THEN Threw(ValidationError(
              <<"Encrypted data must be a valid hexadecimal string">>,
              NoCause))
     ELSE Returned(Undefined)

(***************************************************************************)
(* What one call does: how it ends, the external cryptographic calls it    *)
(* made (in order) and the log entries it wrote.                           *)
(***************************************************************************)
Effect(outcome, ext, logs) == [outcome |-> outcome, ext |-> ext, logs |-> logs]

LogEntry(level, msg) == [level |-> level, msg |-> msg]

(***************************************************************************)
(* AesService (services/aes.service.ts)                                    *)
(***************************************************************************)
keyLength == 32
ivLength == 16

\* crypto.randomBytes(n) as the environment decides it: n fresh bytes, or a
\* failure of the random source.  The bytes of outcome number `seed`:
RandomBytesOf(seed, n) == Tup([i \in 1..n |-> (53 * seed + 7 * i) % 256])

randomBytes(n, rnd) ==
  IF rnd.ok THEN Returned(Buf(RandomBytesOf(rnd.seed, n)))
  ELSE Threw(NativeError("Error", "ERR_CRYPTO_OPERATION_FAILED",
                         <<"random source failed">>))

generateKey(rnd) ==
  LET r == randomBytes(keyLength, rnd)
  IN IF ~r.threw THEN Effect(r, <<"randomBytes">>, <<>>)
     ELSE Effect(Threw(EncryptionError(<<"Failed to generate AES key">>,
                                       AsCause(r.error))),
                 <<"randomBytes">>,
                 <<LogEntry("error", "Failed to generate AES key")>>)

generateIv(rnd) ==
  LET r == randomBytes(ivLength, rnd)
  IN IF ~r.threw THEN Effect(r, <<"randomBytes">>, <<>>)
     ELSE Effect(Threw(EncryptionError(
                         <<"Failed to generate initialization vector">>,
                         AsCause(r.error))),
                 <<"randomBytes">>,
                 <<LogEntry("error", "Failed to generate IV")>>)

\* the catch block of encrypt
encryptCatch(error, ext, logs) ==
  IF InstanceOf(error, "InvalidKeyError") \/ InstanceOf(error, "EncryptionError")
    THEN Effect(Threw(error), ext, logs)
    ELSE Effect(Threw(EncryptionError(<<"Failed to encrypt data">>,
                                      AsCause(error))),
                ext, Append(logs, LogEntry("error", "Encryption failed")))

\* cipherHex with the output encoded as 'latin1': a byte a character
cipherHex_latin1(data, key, iv) == CbcEncrypt(Utf8Encode(data), key, iv)

\* cipher.update(data, 'utf8', 'hex') + cipher.final('hex')
cipherHex(data, key, iv) == HexEncode(CbcEncrypt(Utf8Encode(data), key, iv))

\* encrypt that returns a key and an IV given as strings as they were given
encrypt_echoesArguments(data, key, iv, rndKey, rndIv) ==
  LET valid == validateNonEmptyString(data, "data")
  IN IF valid.threw THEN encryptCatch(valid.error, <<>>, <<>>)
     ELSE
     LET k == IF Truthy(key)
                THEN Effect(validateAndConvertToBuffer(key, "key",
                                                       Num(keyLength)),
                            <<>>, <<>>)
                ELSE generateKey(rndKey)
     IN IF k.outcome.threw THEN encryptCatch(k.outcome.error, k.ext, k.logs)
        ELSE
        LET v == IF Truthy(iv)
                   THEN Effect(validateAndConvertToBuffer(iv, "IV",
                                                          Num(ivLength)),
                               <<>>, <<>>)
                   ELSE generateIv(rndIv)
        IN IF v.outcome.threw
             THEN encryptCatch(v.outcome.error, k.ext \o v.ext,
                               k.logs \o v.logs)
             ELSE
             LET encryptionKey == k.outcome.value.b
                 initializationVector == v.outcome.value.b
             IN Effect(
                  Returned([t |-> "object",
                            encrypted |-> Str(cipherHex(data.s, encryptionKey,
                                                        initializationVector)),
                            key |-> IF Truthy(key) /\ key.t = "string" THEN key
                                    ELSE Str(HexEncode(encryptionKey)),
                            iv |-> IF Truthy(iv) /\ iv.t = "string" THEN iv
                                   ELSE Str(HexEncode(initializationVector))]),
                  k.ext \o v.ext
                    \o <<"createCipheriv", "cipher.update", "cipher.final">>,
                  <<LogEntry("debug", "Data encrypted with AES")>>)

encrypt(data, key, iv, rndKey, rndIv) ==
  LET valid == validateNonEmptyString(data, "data")
  IN IF valid.threw THEN encryptCatch(valid.error, <<>>, <<>>)
     ELSE
     LET k == IF Truthy(key)
                THEN Effect(validateAndConvertToBuffer(key, "key",
                                                       Num(keyLength)),
                            <<>>, <<>>)
                ELSE generateKey(rndKey)
     IN IF k.outcome.threw THEN encryptCatch(k.outcome.error, k.ext, k.logs)
        ELSE
        LET v == IF Truthy(iv)
                   THEN Effect(validateAndConvertToBuffer(iv, "IV",
                                                          Num(ivLength)),
                               <<>>, <<>>)
                   ELSE generateIv(rndIv)
        IN IF v.outcome.threw
             THEN encryptCatch(v.outcome.error, k.ext \o v.ext,
                               k.logs \o v.logs)
             ELSE
             LET encryptionKey == k.outcome.value.b
                 initializationVector == v.outcome.value.b
             IN Effect(
                  Returned([t |-> "object",
                            encrypted |-> Str(cipherHex(data.s, encryptionKey,
                                                        initializationVector)),
                            key |-> Str(HexEncode(encryptionKey)),
                            iv |-> Str(HexEncode(initializationVector))]),
                  k.ext \o v.ext
                    \o <<"createCipheriv", "cipher.update", "cipher.final">>,
                  <<LogEntry("debug", "Data encrypted with AES")>>)

\* the catch block of decrypt with the message of the error it caught as the
\* message of the DecryptionError
decryptCatch_causeMessage(error, ext) ==
  IF InstanceOf(error, "InvalidKeyError") \/ InstanceOf(error, "DecryptionError")
    THEN Effect(Threw(error), ext, <<>>)
    ELSE Effect(Threw(DecryptionError(error.message, AsCause(error))),
                ext, <<LogEntry("error", "Decryption failed")>>)

\* the catch block of decrypt
decryptCatch(error, ext) ==
  IF InstanceOf(error, "InvalidKeyError") \/ InstanceOf(error, "DecryptionError")
    THEN Effect(Threw(error), ext, <<>>)
    ELSE Effect(
           Threw(DecryptionError(
             <<"Failed to decrypt data. Ensure the key, IV, and encrypted data are correct.">>,
             AsCause(error))),
           ext, <<LogEntry("error", "Decryption failed")>>)

\* createDecipheriv(algorithm, key, iv): a key or IV that is undefined is a
\* TypeError of the platform
createDecipheriv(key, iv) ==
  IF key = Undefined \/ iv = Undefined
    THEN Threw(NativeError("TypeError", "ERR_INVALID_ARG_TYPE",
                           <<"The argument must be of type string or an instance of Buffer">>))
    ELSE Returned(Undefined)

\* decipherUtf8 with the output decoded as 'latin1': a byte a character
decipherUtf8_latin1(encryptedData, key, iv) ==
  LET plain == CbcDecrypt(HexDecode(encryptedData), key, iv)
  IN IF plain.ok THEN Returned(Str(plain.bytes))
     ELSE Threw(NativeError("Error", "ERR_OSSL_BAD_DECRYPT",
                            <<"error:1C800064:Provider routines::bad decrypt">>))

\* decipher.update(encryptedData, 'hex', 'utf8') + decipher.final('utf8')
decipherUtf8(encryptedData, key, iv) ==
  LET final(plain) ==
        IF plain.ok THEN Returned(Str(Utf8Decode(plain.bytes)))
        ELSE Threw(NativeError("Error", "ERR_OSSL_BAD_DECRYPT",
                               <<"error:1C800064:Provider routines::bad decrypt">>))
  IN final(CbcDecrypt(HexDecode(encryptedData), key, iv))

decrypt(encryptedData, key, iv) ==
  LET valid == validateEncryptedData(encryptedData)
  IN IF valid.threw THEN decryptCatch(valid.error, <<>>)
     ELSE
     LET k == validateAndConvertToBuffer(key, "key", Num(keyLength))
     IN IF k.threw THEN decryptCatch(k.error, <<>>)
        ELSE
        LET v == validateAndConvertToBuffer(iv, "IV", Num(ivLength))
        IN IF v.threw THEN decryptCatch(v.error, <<>>)
           ELSE
           LET decipher == createDecipheriv(k.value, v.value)
           IN IF decipher.threw
                THEN decryptCatch(decipher.error, <<"createDecipheriv">>)
                ELSE
                LET ext == <<"createDecipheriv", "decipher.update",
                             "decipher.final">>
                    return(decrypted) ==
                      IF decrypted.threw
                        THEN decryptCatch(decrypted.error, ext)
                        ELSE Effect(decrypted, ext,
                               <<LogEntry("debug", "Data decrypted with AES")>>)
                IN return(decipherUtf8(encryptedData.s, k.value.b,
                                       v.value.b))

\* encryptSync that always draws its own IV
encryptSync_ownIv(data, key, iv, rndKey, rndIv) ==
  encrypt(data, key, Undefined, rndKey, rndIv)

encryptSync(data, key, iv, rndKey, rndIv) == encrypt(data, key, iv, rndKey, rndIv)

decryptSync(encryptedData, key, iv) == decrypt(encryptedData, key, iv)

(***************************************************************************)
(* Registration (lib/crypto-core.module.ts).  A provider is named by its   *)
(* token; options are the fields of CryptoModuleOptions that the module    *)
(* and the services could read.                                            *)
(***************************************************************************)
forRoot(options) ==
  LET providers ==
        <<"CRYPTO_MODULE_OPTIONS">>
          \o (IF options.useBcrypt # Bool(FALSE)
                THEN <<"BcryptService">> ELSE <<>>)
          \o (IF options.useAes # Bool(FALSE)
                THEN <<"AesService">> ELSE <<>>)
  IN [module |-> "CryptoCoreModule", providers |-> providers,
      exports |-> providers]

\* options.source is the member that supplies the options (useFactory,
\* useExisting or useClass), options.options what it resolves to;
\* makeAsyncProviders gives the options provider and, for useClass, the class
forRootAsync(options) ==
  LET providers ==
        (IF options.source \in {"useExisting", "useFactory"}
           THEN <<"CRYPTO_MODULE_OPTIONS">>
           ELSE <<"CRYPTO_MODULE_OPTIONS", "useClass">>)
          \o <<"BcryptService", "AesService">>
  IN [module |-> "CryptoCoreModule", providers |-> providers,
      exports |-> providers]

\* options?.useBcrypt, options?.useAes
forFeature(options) ==
  LET providers ==
        (IF options = Undefined \/ options.useBcrypt # Bool(FALSE)
           THEN <<"BcryptService">> ELSE <<>>)
          \o (IF options = Undefined \/ options.useAes # Bool(FALSE)
                THEN <<"AesService">> ELSE <<>>)
  IN [module |-> "CryptoCoreModule", providers |-> providers,
      exports |-> providers]

(***************************************************************************)
(* The generators (utils/generators.ts)                                    *)
(***************************************************************************)
\* randomBytes(length).toString('hex').  The platform takes a size that is a
\* number from 0 up, converted to an unsigned integer; anything else is a
\* TypeError or a RangeError of the platform
randomHex(length, rnd) ==
  IF length.t # "number"
    THEN Effect(Threw(NativeError("TypeError", "ERR_INVALID_ARG_TYPE",
                  <<"The \"size\" argument must be of type number">>)),
                <<>>, <<>>)
  ELSE IF length.kind # "finite" \/ length.twice < 0
    THEN Effect(Threw(NativeError("RangeError", "ERR_OUT_OF_RANGE",
                  <<"The value of \"size\" is out of range">>)),
                <<>>, <<>>)
  ELSE LET r == randomBytes(length.twice \div 2, rnd)
       IN IF r.threw THEN Effect(r, <<"randomBytes">>, <<>>)
          ELSE Effect(Returned(Str(HexEncode(r.value.b))),
                      <<"randomBytes">>, <<>>)

\* a parameter `length: number = n` takes its default when the argument is
\* undefined
generateAesKey(length, rnd) ==
  randomHex(IF length = Undefined THEN Num(32) ELSE length, rnd)

generateAesIv_keySized(length, rnd) ==
  randomHex(IF length = Undefined THEN Num(32) ELSE length, rnd)

generateAesIv(length, rnd) ==
  randomHex(IF length = Undefined THEN Num(16) ELSE length, rnd)

generateSecret(length, rnd) ==
  randomHex(IF length = Undefined THEN Num(32) ELSE length, rnd)

(***************************************************************************)
(* The bcrypt library, as BcryptService uses it.  A hash is the string     *)
(* $2b$<2-digit cost>$<22 characters of salt><31 characters of digest>;    *)
(* the digest is a deterministic function of the cost, the salt and the    *)
(* first 72 bytes of the UTF-8 encoding of the data (bcrypt ignores the    *)
(* rest).  The function itself is a stand-in for the Blowfish schedule.    *)
(***************************************************************************)
BcryptMaxKey == 72

\* three bytes make four characters; a shorter last group makes two or three
RECURSIVE B64Encode(_)
B64Encode(bytes) ==
  IF bytes = <<>> THEN <<>>
  ELSE LET \* the alphabet ./A-Za-z0-9 of bcrypt's base-64
           B64Char(n) == IF n = 0 THEN 46
                         ELSE IF n = 1 THEN 47
                         ELSE IF n < 28 THEN 65 + (n - 2)
                         ELSE IF n < 54 THEN 97 + (n - 28)
                         ELSE 48 + (n - 54)
           b0 == bytes[1]
           b1 == IF Len(bytes) >= 2 THEN bytes[2] ELSE 0
           b2 == IF Len(bytes) >= 3 THEN bytes[3] ELSE 0
           c1 == B64Char(b0 \div 4)
           c2 == B64Char((b0 % 4) * 16 + (b1 \div 16))
           c3 == B64Char((b1 % 16) * 4 + (b2 \div 64))
           c4 == B64Char(b2 % 64)
       IN IF Len(bytes) = 1 THEN <<c1, c2>>
          ELSE IF Len(bytes) = 2 THEN <<c1, c2, c3>>
          ELSE <<c1, c2, c3, c4>> \o B64Encode(SubSeq(bytes, 4, Len(bytes)))

TwoDigits(n) == <<48 + (n \div 10), 48 + (n % 10)>>

\* bcrypt.genSalt(rounds): $2b$NN$ and 16 random bytes in base-64
bcryptGenSalt(rounds, rnd) ==
  <<36, 50, 98, 36>> \o TwoDigits(rounds) \o <<36>>
    \o B64Encode(RandomBytesOf(rnd.seed, 16))

\* absorbs the byte bytes[i] into a state of 23 bytes
AbsorbByte(state, bytes, i) ==
  LET at == ((i - 1) % 23) + 1
      before == ((i + 21) % 23) + 1
      mixed == SBox[Xor(Xor(state[at], bytes[i]), state[before]) + 1]
  IN [state EXCEPT ![at] = mixed]

\* absorbs the bytes lo..hi one after the other
RECURSIVE AbsorbRange(_, _, _, _)
AbsorbRange(state, bytes, lo, hi) ==
  IF lo > hi THEN state
  ELSE IF lo = hi THEN AbsorbByte(state, bytes, lo)
  ELSE LET mid == (lo + hi) \div 2
           half == AbsorbRange(state, bytes, lo, mid)
       IN IF Len(half) = 23 THEN AbsorbRange(half, bytes, mid + 1, hi)
          ELSE state

\* the key bcrypt expands: the first 72 bytes of the data followed by a NUL
\* byte, taken cyclically
bcryptKeyStream(key) ==
  LET n == IF Len(key) > BcryptMaxKey THEN BcryptMaxKey ELSE Len(key)
      z == SubSeq(key, 1, n) \o <<0>>
  IN Tup([i \in 1..BcryptMaxKey |-> z[((i - 1) % (n + 1)) + 1]])

\* the 31 characters of digest for a key under the 29 characters of a salt
bcryptDigest(key, salt) ==
  LET start == Tup([i \in 1..23 |-> (salt[(i % 29) + 1] + i) % 256])
      keyed == AbsorbRange(start, bcryptKeyStream(key), 1, BcryptMaxKey)
  IN B64Encode(AbsorbRange(keyed, Tup([i \in 1..23 |-> i]), 1, 23))

\* bcrypt.hash(data, rounds) / bcrypt.hashSync(data, rounds)
bcryptHash(data, rounds, rnd) ==
  LET salt == bcryptGenSalt(rounds, rnd)
  IN salt \o bcryptDigest(Utf8Encode(data), salt)

\* bcrypt.compare(data, hash) / bcrypt.compareSync(data, hash), for a hash
\* of 60 characters: the data is hashed under the salt of the hash, whose
\* minor version and cost are those bcrypt supports
bcryptCompare(data, hash) ==
  LET salt == SubSeq(hash, 1, 29)
  IN /\ salt[3] \in {97, 98}
     /\ 10 * (salt[5] - 48) + (salt[6] - 48) \in 4..31
     /\ salt \o bcryptDigest(Utf8Encode(data), salt) = hash

\* bcrypt.getRounds(hash): the number after the version, which may be 0
bcryptGetRounds(hash) == 10 * (hash[5] - 48) + (hash[6] - 48)

(***************************************************************************)
(* BcryptService (services/bcrypt.service.ts).  Each method is given as    *)
(* the effect of the whole call, for the outcome `imp` of                  *)
(* `await import('bcrypt')` and the random source `rnd` of the library.    *)
(***************************************************************************)
minSaltRounds == 4
maxSaltRounds == 31
recommendedSaltRounds == 12

\* the catch block shared by the methods: message and log line differ
bcryptCatch(error, message, logLine, ext, logs) ==
  IF InstanceOf(error, "ValidationError") \/ InstanceOf(error, "HashingError")
    THEN Effect(Threw(error), ext, logs)
    ELSE Effect(Threw(HashingError(<<message>>, AsCause(error))), ext,
                Append(logs, LogEntry("error", logLine)))

\* await import('bcrypt') when the module cannot be loaded
importError ==
  NativeError("Error", "MODULE_NOT_FOUND", <<"Cannot find module 'bcrypt'">>)

\* the library's failure when its random source fails
saltError ==
  NativeError("Error", "ERR_CRYPTO_OPERATION_FAILED", <<"random source failed">>)

\* validateSaltRounds with the upper bound one too low
validateSaltRounds_below(saltRounds) ==
  validateIntegerInRange(saltRounds, "saltRounds", minSaltRounds,
                         maxSaltRounds - 1)

validateSaltRounds(saltRounds) ==
  validateIntegerInRange(saltRounds, "saltRounds", minSaltRounds, maxSaltRounds)

\* hash that warns for the recommended number of rounds too
hash_warnsAtRecommended(data, saltRounds, imp, rnd) ==
  LET v1 == validateNonEmptyString(data, "data")
      v2 == validateSaltRounds(saltRounds)
      message == "Failed to hash data"
      logLine == "Hashing failed"
  IN IF v1.threw THEN bcryptCatch(v1.error, message, logLine, <<>>, <<>>)
     ELSE IF v2.threw THEN bcryptCatch(v2.error, message, logLine, <<>>, <<>>)
     ELSE
     LET rounds == saltRounds.twice \div 2
         warn == IF rounds <= recommendedSaltRounds
                   THEN <<LogEntry("warn", "Salt rounds below recommended value")>>
                   ELSE <<>>
     IN IF ~imp
          THEN bcryptCatch(importError, message, logLine, <<"import">>, warn)
        ELSE IF ~rnd.ok
          THEN bcryptCatch(saltError, message, logLine,
                           <<"import", "bcrypt.hash">>, warn)
        ELSE Effect(Returned(Str(bcryptHash(data.s, rounds, rnd))),
                    <<"import", "bcrypt.hash">>,
                    Append(warn, LogEntry("debug", "Generated bcrypt hash")))

hash(data, saltRounds, imp, rnd) ==
  LET v1 == validateNonEmptyString(data, "data")
      v2 == validateSaltRounds(saltRounds)
      message == "Failed to hash data"
      logLine == "Hashing failed"
  IN IF v1.threw THEN bcryptCatch(v1.error, message, logLine, <<>>, <<>>)
     ELSE IF v2.threw THEN bcryptCatch(v2.error, message, logLine, <<>>, <<>>)
     ELSE
     LET rounds == saltRounds.twice \div 2
         warn == IF rounds < recommendedSaltRounds
                   THEN <<LogEntry("warn", "Salt rounds below recommended value")>>
                   ELSE <<>>
     IN IF ~imp
          THEN bcryptCatch(importError, message, logLine, <<"import">>, warn)
        ELSE IF ~rnd.ok
          THEN bcryptCatch(saltError, message, logLine,
                           <<"import", "bcrypt.hash">>, warn)
        ELSE Effect(Returned(Str(bcryptHash(data.s, rounds, rnd))),
                    <<"import", "bcrypt.hash">>,
                    Append(warn, LogEntry("debug", "Generated bcrypt hash")))

hashSync(data, saltRounds, imp, rnd) ==
  LET v1 == validateNonEmptyString(data, "data")
      v2 == validateSaltRounds(saltRounds)
      message == "Failed to hash data synchronously"
      logLine == "Synchronous hashing failed"
  IN IF v1.threw THEN bcryptCatch(v1.error, message, logLine, <<>>, <<>>)
     ELSE IF v2.threw THEN bcryptCatch(v2.error, message, logLine, <<>>, <<>>)
     ELSE IF ~imp
       THEN bcryptCatch(importError, message, logLine, <<"import">>, <<>>)
     ELSE IF ~rnd.ok
       THEN bcryptCatch(saltError, message, logLine,
                        <<"import", "bcrypt.hashSync">>, <<>>)
     ELSE Effect(Returned(Str(bcryptHash(data.s, saltRounds.twice \div 2, rnd))),
                 <<"import", "bcrypt.hashSync">>,
                 <<LogEntry("debug", "Generated bcrypt hash (sync)")>>)

\* compare with the data trimmed before it is handed to the library
compare_trimmed(data, encrypted, imp) ==
  LET v1 == validateNonEmptyString(data, "data")
      v2 == validateBcryptHash(encrypted)
      message == "Failed to compare data with hash"
      logLine == "Comparison failed"
  IN IF v1.threw THEN bcryptCatch(v1.error, message, logLine, <<>>, <<>>)
     ELSE IF v2.threw THEN bcryptCatch(v2.error, message, logLine, <<>>, <<>>)
     ELSE IF ~imp
       THEN bcryptCatch(importError, message, logLine, <<"import">>, <<>>)
     ELSE Effect(Returned(Bool(bcryptCompare(Trim(data.s), encrypted.s))),
                 <<"import", "bcrypt.compare">>,
                 <<LogEntry("debug", "Bcrypt compare result")>>)

compare(data, encrypted, imp) ==
  LET v1 == validateNonEmptyString(data, "data")
      v2 == validateBcryptHash(encrypted)
      message == "Failed to compare data with hash"
      logLine == "Comparison failed"
  IN IF v1.threw THEN bcryptCatch(v1.error, message, logLine, <<>>, <<>>)
     ELSE IF v2.threw THEN bcryptCatch(v2.error, message, logLine, <<>>, <<>>)
     ELSE IF ~imp
       THEN bcryptCatch(importError, message, logLine, <<"import">>, <<>>)
     ELSE Effect(Returned(Bool(bcryptCompare(data.s, encrypted.s))),
                 <<"import", "bcrypt.compare">>,
                 <<LogEntry("debug", "Bcrypt compare result")>>)

compareSync(data, encrypted, imp) ==
  LET v1 == validateNonEmptyString(data, "data")
      v2 == validateBcryptHash(encrypted)
      message == "Failed to compare data with hash synchronously"
      logLine == "Synchronous comparison failed"
  IN IF v1.threw THEN bcryptCatch(v1.error, message, logLine, <<>>, <<>>)
     ELSE IF v2.threw THEN bcryptCatch(v2.error, message, logLine, <<>>, <<>>)
     ELSE IF ~imp
       THEN bcryptCatch(importError, message, logLine, <<"import">>, <<>>)
     ELSE Effect(Returned(Bool(bcryptCompare(data.s, encrypted.s))),
                 <<"import", "bcrypt.compareSync">>,
                 <<LogEntry("debug", "Bcrypt compare result (sync)")>>)

genSalt(saltRounds, imp, rnd) ==
  LET v == validateSaltRounds(saltRounds)
      message == "Failed to generate salt"
      logLine == "Salt generation failed"
  IN IF v.threw THEN bcryptCatch(v.error, message, logLine, <<>>, <<>>)
     ELSE IF ~imp
       THEN bcryptCatch(importError, message, logLine, <<"import">>, <<>>)
     ELSE IF ~rnd.ok
       THEN bcryptCatch(saltError, message, logLine,
                        <<"import", "bcrypt.genSalt">>, <<>>)
     ELSE Effect(Returned(Str(bcryptGenSalt(saltRounds.twice \div 2, rnd))),
                 <<"import", "bcrypt.genSalt">>,
                 <<LogEntry("debug", "Generated bcrypt salt")>>)

getSaltRounds(encrypted, imp) ==
  LET v == validateBcryptHash(encrypted)
      message == "Failed to get salt rounds from hash"
      logLine == "Failed to extract salt rounds"
  IN IF v.threw THEN bcryptCatch(v.error, message, logLine, <<>>, <<>>)
     ELSE IF ~imp
       THEN bcryptCatch(importError, message, logLine, <<"import">>, <<>>)
     ELSE IF bcryptGetRounds(encrypted.s) = 0
       THEN bcryptCatch(NativeError("Error", "", <<"invalid hash provided">>),
                        message, logLine, <<"import", "bcrypt.getRounds">>,
                        <<>>)
     ELSE Effect(Returned(Num(bcryptGetRounds(encrypted.s))),
                 <<"import", "bcrypt.getRounds">>,
                 <<LogEntry("debug", "Bcrypt salt rounds extracted")>>)

(***************************************************************************)
(* The inputs the callers draw from                                        *)
(***************************************************************************)
\* the longest string made from the alphabet
MaxDataLen == 2
\* the number of different outputs of the random source
NumRandom == 2

\* the number of concurrent callers
NumCallers == 2

\* ' ', 'a', U+00E9 and the two halves of U+1F30D (each alone is an unpaired
\* surrogate)
Alphabet == {32, 97, 233, 55356, 57101}

RECURSIVE StringsOfLen(_)
StringsOfLen(n) ==
  IF n = 0 THEN {<<>>}
  ELSE {Append(s, c) : s \in StringsOfLen(n - 1), c \in Alphabet}

Texts == UNION {StringsOfLen(n) : n \in 0..MaxDataLen}

\* data that takes part in every combination of the other arguments
FewData ==
  {Str(<<>>), Str(<<32>>), Str(<<97>>), Str(<<116, 101, 115, 116>>), Undefined,
   Num(5)}

\* with strings around the block size of the cipher
AesData ==
  {Str(s) : s \in Texts \cup {Repeat(97, n) : n \in 15..17}} \cup FewData

\* two strings that differ only after their 72nd byte, and one that repeats
\* "a" after a NUL character
LongTexts == {Repeat(97, 72) \o <<98>>, Repeat(97, 72) \o <<99>>, <<97, 0, 97>>}

HashData == {Str(s) : s \in Texts \cup LongTexts} \cup FewData

RandomOutcomes ==
  {[ok |-> TRUE, seed |-> k] : k \in 1..NumRandom} \cup {[ok |-> FALSE, seed |-> 0]}

Key1 == Tup([i \in 1..32 |-> (171 + 13 * i) % 256])
\* another key, under which the ciphertext of "a" for Key1 and Iv1 deciphers
\* to a block that ends in the byte 1
Key3 == Tup([i \in 1..32 |-> (2 + 3 * i) % 256])

Iv1 == Tup([i \in 1..16 |-> (205 + 17 * i) % 256])
\* Iv1 with another first byte, and Iv1 with another last byte
Iv2 == [Iv1 EXCEPT ![1] = Xor(Iv1[1], 1)]
Iv3 == [Iv1 EXCEPT ![16] = Xor(Iv1[16], 1)]

UpperHex(s) == Tup([i \in 1..Len(s) |-> IF s[i] \in 97..102 THEN s[i] - 32 ELSE s[i]])

\* the forms of a key or IV of n bytes: absent, empty, right (a Buffer, and
\* hexadecimal digits in lower case, in upper case and in both), and wrong
\* in length or in digits
MaterialArgs(bytes) ==
  {Undefined, Str(<<>>), Buf(<<>>),
   Buf(bytes), Str(HexEncode(bytes)), Str(UpperHex(HexEncode(bytes))),
   Str(UpperHex(HexEncode(SubSeq(bytes, 1, 4)))
         \o HexEncode(SubSeq(bytes, 5, Len(bytes)))),
   Buf(<<116, 111, 111, 115, 104, 111, 114, 116>>),
   Buf(bytes \o <<0>>),
   Str(HexEncode(SubSeq(bytes, 1, Len(bytes) - 1))),
   Str(SubSeq(HexEncode(bytes), 1, 2 * Len(bytes) - 1)),
   Str(Repeat(122, 2 * Len(bytes)))}

\* every data under Key1 and Iv1, and the data of FewData under every form
\* of key and IV
EncryptArgs ==
  {<<d, Buf(Key1), Buf(Iv1)>> : d \in AesData}
    \cup (FewData \X MaterialArgs(Key1) \X MaterialArgs(Iv1))

\* the bytes a well-formed key or IV argument stands for
BytesOf(v) == IF v.t = "buffer" THEN v.b ELSE HexDecode(v.s)

\* decrypt after encrypt: the ciphertext with the material of the envelope
\* as returned and as Buffers, and with a key or an IV that differs in one
\* byte; for the data of FewData under Key1 and Iv1 given as Buffers, also
\* with the two forms mixed, with material under which the last block
\* deciphers to other valid padding, and with every form of the other
\* arguments
DecryptArgsFor(envelope) ==
  LET r == envelope.result
      good(bytes) == {Buf(bytes), Str(HexEncode(bytes)),
                      Str(UpperHex(HexEncode(bytes)))}
      \* Key1 with another first byte
      otherKey == [Key1 EXCEPT ![1] = Xor(Key1[1], 1)]
  IN {<<r.encrypted, r.key, r.iv>>,
      <<r.encrypted, Buf(BytesOf(r.key)), Buf(BytesOf(r.iv))>>,
      <<r.encrypted, Str(HexEncode(otherKey)), r.iv>>,
      <<r.encrypted, r.key, Str(HexEncode(Iv2))>>}
       \cup IF /\ envelope.data \in FewData
               /\ envelope.key = Buf(Key1)
               /\ envelope.iv = Buf(Iv1)
              THEN {<<r.encrypted, Buf(Key1), r.iv>>,
                    <<r.encrypted, r.key, Buf(Iv1)>>,
                    <<r.encrypted, Str(HexEncode(Key3)), r.iv>>,
                    <<r.encrypted, r.key, Str(HexEncode(Iv3))>>}
                     \cup {<<r.encrypted, k, r.iv>> :
                             k \in MaterialArgs(Key1) \ good(Key1)}
                     \cup {<<r.encrypted, r.key, v>> :
                             v \in MaterialArgs(Iv1) \ good(Iv1)}
              ELSE {}

\* ciphertext arguments that need no earlier call, with every form of the
\* other arguments
DecryptArgs ==
  {Undefined, Str(<<>>), Str(<<32>>), Str(<<122, 122>>), Str(<<97, 98>>),
   Str(<<97, 98, 99>>)} \X MaterialArgs(Key1) \X MaterialArgs(Iv1)

\* salt rounds: every integer around the range, fractions and non-numbers
RoundsArgs ==
  {Num(n) : n \in -1..33}
    \cup {Half(7), Half(9), Half(63), NonFinite("NaN"), NonFinite("Infinity"),
          NonFinite("-Infinity"), Str(<<49, 50>>), Undefined}

HashArgs ==
  {<<d, Num(12)>> : d \in HashData} \cup (FewData \X RoundsArgs)

\* a hash of the right shape that no call produced, its cost 00
ZeroCostHash == <<36, 50, 98, 36, 48, 48, 36>> \o Repeat(97, 53)

\* strings that are not hashes: text, blanks, and a hash h with its version,
\* cost, separators, length or alphabet spoilt
MalformedFrom(h) ==
  {Str(<<110, 111, 116, 45, 97, 45, 98, 99, 114, 121, 112, 116, 45, 104, 97,
         115, 104>>),
   Str(<<>>), Str(<<32>>), Undefined, Num(5),
   Str([h EXCEPT ![3] = 120]),
   Str([h EXCEPT ![2] = 51]),
   Str([h EXCEPT ![5] = 97]),
   Str([h EXCEPT ![7] = 46]),
   Str([h EXCEPT ![60] = 33]),
   Str([h EXCEPT ![30] = 233]),
   Str(SubSeq(h, 1, 59)),
   Str(h \o <<97>>),
   Str(h \o <<10>>),
   Str(<<32>> \o h),
   Str(SubSeq(h, 2, 60))}

\* hashes of the right shape derived from h: another version, another digest
VariantsOf(h) ==
  {Str([h EXCEPT ![3] = 97]), Str([h EXCEPT ![3] = 121]),
   Str([h EXCEPT ![60] = IF h[60] = 46 THEN 47 ELSE 46])}

\* the hash a call produced and, for the data of FewData under the
\* recommended cost, what can be made of it
HashArgsFor(hashed) ==
  IF hashed.data \in FewData /\ hashed.rounds = Num(recommendedSaltRounds)
    THEN {hashed.hash} \cup VariantsOf(hashed.hash.s)
           \cup MalformedFrom(hashed.hash.s)
    ELSE {hashed.hash}

\* compare after hash: the data itself, the data as its UTF-8 bytes read it
\* back, and other short data; for the long data, each other; for the data
\* of FewData under the recommended cost, each other and the long data, and
\* the data against what can be made of the hash
CompareArgsFor(hashed) ==
  LET long == {Str(s) : s \in LongTexts}
      data == {hashed.data, Str(<<>>), Str(<<97>>), Str(<<65533>>),
               Str(Utf8Decode(Utf8Encode(hashed.data.s)))}
                \cup (IF hashed.data \in long THEN long ELSE {})
                \cup (IF hashed.data \in FewData
                           /\ hashed.rounds = Num(recommendedSaltRounds)
                        THEN FewData \cup long
                        ELSE {})
  IN {<<d, hashed.hash>> : d \in data}
       \cup ({hashed.data, Str(<<>>)} \X HashArgsFor(hashed))

StandaloneHashArgs == MalformedFrom(ZeroCostHash) \cup {Str(ZeroCostHash)}

CompareArgs == FewData \X StandaloneHashArgs

(***************************************************************************)
(* The services under a caller.  The services keep no state of their own;  *)
(* the state is the caller's: the call that ended last, what the caller    *)
(* kept of an earlier result, and the BcryptService call that is suspended *)
(* at an await.  A caller makes a call and, when it kept a result, one     *)
(* call that uses it.                                                      *)
(***************************************************************************)
VARIABLES call, kept, pending

vars == <<call, kept, pending>>

NoCall == [op |-> "none"]
NoKept == [kind |-> "none"]
NoPending == [op |-> "none"]

Done(op, args, effect) ==
  [op |-> op, args |-> args, outcome |-> effect.outcome, ext |-> effect.ext,
   logs |-> effect.logs]

Envelope(args, result) ==
  [kind |-> "envelope", data |-> args[1], key |-> args[2], iv |-> args[3],
   result |-> result]

Hashed(args, result) ==
  [kind |-> "hash", data |-> args[1], rounds |-> args[2], hash |-> result]

Init ==
  /\ call = NoCall
  /\ kept = NoKept
  /\ pending = NoPending

\* nothing was called yet
Fresh == call = NoCall /\ pending = NoPending

\* the call that ended last left the result the caller kept
After(kind) ==
  /\ pending = NoPending
  /\ kept.kind = kind
  /\ call.op \in {"encrypt", "hash", "hashSync", "generateAesKey",
                  "generateAesIv", "forRoot", "forRootAsync", "forFeature"}
  /\ kind = "envelope" => call.args = <<kept.data, kept.key, kept.iv>>
  /\ kind \in {"generated", "module"} => call.op = kept.op

\* the random source is consulted only for an argument that is not given
RandomFor(arg) ==
  IF Truthy(arg) THEN {[ok |-> FALSE, seed |-> 0]} ELSE RandomOutcomes

\* encrypt after encrypt under Key1 and Iv1 given as Buffers: the data and
\* the key of the envelope under another IV, under the same IV in another
\* form, and under a generated IV
EncryptArgsFor(envelope) ==
  IF envelope.key = Buf(Key1) /\ envelope.iv = Buf(Iv1)
    THEN {<<envelope.data, envelope.key, v>> :
            v \in {Buf(Iv2), Str(UpperHex(HexEncode(Iv1))), Undefined}}
    ELSE {}

\* encrypt after generateAesKey or generateAesIv: what the generator
\* returned as the key or as the IV
EncryptArgsWith(generated) ==
  IF generated.op = "generateAesKey"
    THEN {<<Str(<<97>>), generated.value, Buf(Iv1)>>}
    ELSE {<<Str(<<97>>), Buf(Key1), generated.value>>}

\* Encrypt on a service that keeps the IV of the envelope and uses it when a
\* later call omits the IV
Encrypt_cachedIv ==
  /\ Fresh \/ After("envelope") \/ After("generated")
  /\ \E args \in IF Fresh THEN EncryptArgs
                 ELSE IF kept.kind = "envelope" THEN EncryptArgsFor(kept)
                 ELSE EncryptArgsWith(kept) :
       \E rndKey \in RandomFor(args[2]), rndIv \in RandomFor(args[3]) :
         LET iv == IF args[3] = Undefined /\ kept.kind = "envelope"
                     THEN kept.result.iv ELSE args[3]
             effect == encrypt(args[1], args[2], iv, rndKey, rndIv)
         IN /\ call' = Done("encrypt", args, effect)
            /\ kept' = IF Fresh /\ ~effect.outcome.threw
                         THEN Envelope(args, effect.outcome.value)
                         ELSE kept
  /\ UNCHANGED pending

\* the caller keeps the envelope of its first successful encrypt
Encrypt ==
  /\ Fresh \/ After("envelope") \/ After("generated")
  /\ \E args \in IF Fresh THEN EncryptArgs
                 ELSE IF kept.kind = "envelope" THEN EncryptArgsFor(kept)
                 ELSE EncryptArgsWith(kept) :
       \E rndKey \in RandomFor(args[2]), rndIv \in RandomFor(args[3]) :
         LET effect == encrypt(args[1], args[2], args[3], rndKey, rndIv)
         IN /\ call' = Done("encrypt", args, effect)
            /\ kept' = IF Fresh /\ ~effect.outcome.threw
                         THEN Envelope(args, effect.outcome.value)
                         ELSE kept
  /\ UNCHANGED pending

Decrypt ==
  /\ Fresh \/ After("envelope")
  /\ \E args \in IF Fresh THEN DecryptArgs ELSE DecryptArgsFor(kept) :
       call' = Done("decrypt", args, decrypt(args[1], args[2], args[3]))
  /\ UNCHANGED <<kept, pending>>

EncryptSync ==
  /\ Fresh
  /\ \E args \in EncryptArgs :
       \E rndKey \in RandomFor(args[2]), rndIv \in RandomFor(args[3]) :
         call' = Done("encryptSync", args,
                      encryptSync(args[1], args[2], args[3], rndKey, rndIv))
  /\ UNCHANGED <<kept, pending>>

\* on its own, or after an encrypt of the data of FewData under Key1 and Iv1
DecryptSync ==
  /\ \/ Fresh
     \/ /\ After("envelope")
        /\ kept.data \in FewData
        /\ kept.key = Buf(Key1)
        /\ kept.iv = Buf(Iv1)
  /\ \E args \in IF Fresh THEN DecryptArgs ELSE DecryptArgsFor(kept) :
       call' = Done("decryptSync", args,
                    decryptSync(args[1], args[2], args[3]))
  /\ UNCHANGED <<kept, pending>>

\* lengths for the generators: absent, sizes of keys and IVs, other sizes,
\* and what is not a size
LengthArgs ==
  {Undefined, Num(0), Num(1), Num(16), Num(32), Num(33), Num(-1),
   NonFinite("NaN"), NonFinite("Infinity"), Str(<<51, 50>>)}

\* the helper called on its own, with and without expectedLength
ValidateAndConvertToBuffer ==
  /\ Fresh
  /\ \E value \in MaterialArgs(Key1) \cup MaterialArgs(Iv1)
                    \cup {Num(16), Bool(TRUE)},
        expectedLength \in {Undefined, Num(0), Num(8), Num(ivLength),
                            Num(keyLength)} :
       call' = Done("validateAndConvertToBuffer", <<value, expectedLength>>,
                    Effect(validateAndConvertToBuffer(value, "key",
                                                      expectedLength),
                           <<>>, <<>>))
  /\ UNCHANGED <<kept, pending>>

\* the helper called on its own: the data of encrypt, strings of white space
\* of several kinds, strings with white space around a letter, and values
\* that are not strings
ValidateNonEmptyString ==
  /\ Fresh
  /\ \E value \in AesData \cup {Str(<<9, 10, 160>>), Str(<<65279, 8195>>),
                                Str(<<32, 97, 32>>), Str(<<8203>>),
                                Buf(<<97>>), Bool(TRUE)},
        fieldName \in {"data", "encrypted"} :
       call' = Done("validateNonEmptyString", <<value, fieldName>>,
                    Effect(validateNonEmptyString(value, fieldName),
                           <<>>, <<>>))
  /\ UNCHANGED <<kept, pending>>

GenerateKey ==
  /\ Fresh
  /\ \E rnd \in RandomOutcomes :
       call' = Done("generateKey", <<>>, generateKey(rnd))
  /\ UNCHANGED <<kept, pending>>

GenerateIv ==
  /\ Fresh
  /\ \E rnd \in RandomOutcomes :
       call' = Done("generateIv", <<>>, generateIv(rnd))
  /\ UNCHANGED <<kept, pending>>

\* the caller keeps what a generator of key or IV material returned
Generated(op, length, effect) ==
  IF effect.outcome.threw THEN kept
  ELSE [kind |-> "generated", op |-> op, length |-> length,
        value |-> effect.outcome.value]

GenerateAesKey ==
  /\ Fresh
  /\ \E length \in LengthArgs, rnd \in RandomOutcomes :
       LET effect == generateAesKey(length, rnd)
       IN /\ call' = Done("generateAesKey", <<length>>, effect)
          /\ kept' = Generated("generateAesKey", length, effect)
  /\ UNCHANGED pending

GenerateAesIv ==
  /\ Fresh
  /\ \E length \in LengthArgs, rnd \in RandomOutcomes :
       LET effect == generateAesIv(length, rnd)
       IN /\ call' = Done("generateAesIv", <<length>>, effect)
          /\ kept' = Generated("generateAesIv", length, effect)
  /\ UNCHANGED pending

GenerateSecret ==
  /\ Fresh
  /\ \E length \in LengthArgs, rnd \in RandomOutcomes :
       call' = Done("generateSecret", <<length>>, generateSecret(length, rnd))
  /\ UNCHANGED <<kept, pending>>

\* the effect of a BcryptService call for the outcomes of its awaits
BcryptEffect(op, args, imp, rnd) ==
  CASE op = "hash" -> hash(args[1], args[2], imp, rnd)
    [] op = "hashSync" -> hashSync(args[1], args[2], imp, rnd)
    [] op = "compare" -> compare(args[1], args[2], imp)
    [] op = "compareSync" -> compareSync(args[1], args[2], imp)
    [] op = "genSalt" -> genSalt(args[1], imp, rnd)
    [] op = "getSaltRounds" -> getSaltRounds(args[1], imp)

\* the methods that await the library after the import
AwaitsLibrary(op) == op \in {"hash", "compare", "genSalt"}

\* the outcomes of the random source for the library call of op: every one
\* for genSalt and for a hash of the data of FewData under the recommended
\* cost, one salt and the failure for the other hashes, and one for the
\* calls that draw no salt
RandomOf(op, args) ==
  IF op = "genSalt" THEN RandomOutcomes
  ELSE IF op \in {"hash", "hashSync"}
    THEN IF args[1] \in FewData /\ args[2] = Num(recommendedSaltRounds)
           THEN RandomOutcomes
           ELSE {[ok |-> TRUE, seed |-> 1], [ok |-> FALSE, seed |-> 0]}
  ELSE {[ok |-> TRUE, seed |-> 1]}

Settle(op, args, effect) ==
  /\ call' = Done(op, args, effect)
  /\ pending' = NoPending
  /\ kept' = IF op \in {"hash", "hashSync"} /\ ~effect.outcome.threw
               THEN Hashed(args, effect.outcome.value)
               ELSE kept

\* a call runs to its first await: it has thrown by then, or it is suspended
\* at the import
Enter(op, args) ==
  LET effect == BcryptEffect(op, args, TRUE, [ok |-> TRUE, seed |-> 1])
  IN IF effect.ext = <<>>
       THEN Settle(op, args, effect)
       ELSE /\ pending' = [op |-> op, args |-> args, pc |-> "import"]
            /\ UNCHANGED <<call, kept>>

\* each flag absent, true and false, the default cost absent and given
OptionsArgs ==
  [useBcrypt : {Undefined, Bool(TRUE), Bool(FALSE)},
   useAes : {Undefined, Bool(TRUE), Bool(FALSE)},
   bcryptSaltRounds : {Undefined, Num(10)}]

\* the application keeps the module it registered: the options in effect
\* and the providers it can inject
ForRoot ==
  /\ Fresh
  /\ \E options \in OptionsArgs :
       LET registered == forRoot(options)
       IN /\ call' = Done("forRoot", <<options>>,
                          Effect(Returned(registered), <<>>, <<>>))
          /\ kept' = [kind |-> "module", op |-> "forRoot",
                      options |-> options,
                      providers |-> registered.providers]
  /\ UNCHANGED pending

ForRootAsync ==
  /\ Fresh
  /\ \E source \in {"useFactory", "useExisting", "useClass"},
        options \in OptionsArgs :
       LET registered ==
             forRootAsync([source |-> source, options |-> options])
       IN /\ call' = Done("forRootAsync",
                          <<[source |-> source, options |-> options]>>,
                          Effect(Returned(registered), <<>>, <<>>))
          /\ kept' = [kind |-> "module", op |-> "forRootAsync",
                      options |-> options,
                      providers |-> registered.providers]
  /\ UNCHANGED pending

ForFeature ==
  /\ Fresh
  /\ \E options \in OptionsArgs \cup {Undefined} :
       LET registered == forFeature(options)
       IN /\ call' = Done("forFeature", <<options>>,
                          Effect(Returned(registered), <<>>, <<>>))
          /\ kept' = [kind |-> "module", op |-> "forFeature",
                      options |-> options,
                      providers |-> registered.providers]
  /\ UNCHANGED pending

\* hash on its own, or without saltRounds on the BcryptService of a
\* registered module
Hash ==
  \/ Fresh /\ \E args \in HashArgs : Enter("hash", args)
  \/ /\ After("module")
     /\ \E i \in 1..Len(kept.providers) : kept.providers[i] = "BcryptService"
     /\ Enter("hash", <<Str(<<97>>), Undefined>>)

HashSync == Fresh /\ \E args \in HashArgs : Enter("hashSync", args)

Compare ==
  /\ Fresh \/ After("hash")
  /\ \E args \in IF Fresh THEN CompareArgs ELSE CompareArgsFor(kept) :
       Enter("compare", args)

CompareSync ==
  /\ Fresh \/ After("hash")
  /\ \E args \in IF Fresh THEN CompareArgs ELSE CompareArgsFor(kept) :
       Enter("compareSync", args)

GenSalt == Fresh /\ \E r \in RoundsArgs : Enter("genSalt", <<r>>)

GetSaltRounds ==
  /\ Fresh \/ After("hash")
  /\ \E h \in IF Fresh THEN StandaloneHashArgs ELSE HashArgsFor(kept) :
       Enter("getSaltRounds", <<h>>)

\* await import('bcrypt') settles: the call fails, goes on to the end, or is
\* suspended at the library
ImportSettles ==
  /\ pending.op # "none"
  /\ pending.pc = "import"
  /\ \E imp \in BOOLEAN :
       IF imp /\ AwaitsLibrary(pending.op)
         THEN /\ pending' = [pending EXCEPT !.pc = "bcrypt"]
              /\ UNCHANGED <<call, kept>>
         ELSE \E rnd \in IF imp THEN RandomOf(pending.op, pending.args)
                                ELSE {[ok |-> TRUE, seed |-> 1]} :
                Settle(pending.op, pending.args,
                       BcryptEffect(pending.op, pending.args, imp, rnd))

\* the awaited library call settles
BcryptSettles ==
  /\ pending.op # "none"
  /\ pending.pc = "bcrypt"
  /\ \E rnd \in RandomOf(pending.op, pending.args) :
       Settle(pending.op, pending.args,
              BcryptEffect(pending.op, pending.args, TRUE, rnd))

Next ==
  \/ Encrypt
  \/ Decrypt
  \/ EncryptSync
  \/ DecryptSync
  \/ Hash
  \/ HashSync
  \/ Compare
  \/ CompareSync
  \/ GenSalt
  \/ GetSaltRounds
  \/ ImportSettles
  \/ BcryptSettles
  \/ ForRoot
  \/ ForRootAsync
  \/ ForFeature
  \/ ValidateNonEmptyString
  \/ ValidateAndConvertToBuffer
  \/ GenerateKey
  \/ GenerateIv
  \/ GenerateAesKey
  \/ GenerateAesIv
  \/ GenerateSecret

Spec == Init /\ [][Next]_vars

(***************************************************************************)
(* Concurrent callers of the same service instances.  Each caller makes    *)
(* one call; call[c] is the call of caller c that ended and pending[c] its *)
(* call that is suspended at an await.  encrypt and decrypt have no await  *)
(* and run to their end in one step; hash, compare and genSalt suspend at  *)
(* the import and at the library call, and the steps of the other callers  *)
(* come in between.                                                        *)
(***************************************************************************)
\* a caller begins a call: it runs to its end or to its first await
Begin ==
  \E c \in 1..NumCallers :
    /\ call[c] = NoCall
    /\ pending[c] = NoPending
    /\ \/ \E args \in {<<Str(<<97>>), Buf(Key1), Buf(Iv1)>>,
                       <<Str(<<97>>), Buf(<<>>), Buf(Iv1)>>} :
            \E rndKey \in RandomFor(args[2]), rndIv \in RandomFor(args[3]) :
              /\ call' = [call EXCEPT ![c] =
                            Done("encrypt", args,
                                 encrypt(args[1], args[2], args[3],
                                         rndKey, rndIv))]
              /\ UNCHANGED <<kept, pending>>
       \/ \E args \in {<<Str(<<122, 122>>), Buf(Key1), Buf(Iv1)>>}
                        \cup {<<call[d].outcome.value.encrypted, k, Buf(Iv1)>> :
                                d \in {e \in 1..NumCallers :
                                         /\ call[e] # NoCall
                                         /\ call[e].op = "encrypt"
                                         /\ ~call[e].outcome.threw},
                                k \in {Buf(Key1), Buf(Key3)}} :
            /\ call' = [call EXCEPT ![c] =
                          Done("decrypt", args,
                               decrypt(args[1], args[2], args[3]))]
            /\ UNCHANGED <<kept, pending>>
       \/ \E op \in {"hash", "compare", "genSalt"} :
            \E args \in CASE op = "hash" ->
                               {<<Str(<<97>>), Num(12)>>, <<Str(<<97>>), Num(4)>>}
                          [] op = "compare" ->
                               {<<Str(<<97>>), Str(ZeroCostHash)>>}
                          [] op = "genSalt" -> {<<Num(12)>>, <<Num(3)>>} :
              LET effect ==
                    BcryptEffect(op, args, TRUE, [ok |-> TRUE, seed |-> 1])
              IN IF effect.ext = <<>>
                   THEN /\ call' = [call EXCEPT ![c] = Done(op, args, effect)]
                        /\ UNCHANGED <<kept, pending>>
                   ELSE /\ pending' = [pending EXCEPT ![c] =
                                         [op |-> op, args |-> args,
                                          pc |-> "import"]]
                        /\ UNCHANGED <<call, kept>>

\* Resume on a service that holds the arguments of a suspended call in a
\* field of the instance, which a concurrent call of the same method
\* overwrites
Resume_shared ==
  \E c \in 1..NumCallers :
    /\ pending[c] # NoPending
    /\ \/ /\ pending[c].pc = "import"
          /\ pending' = [pending EXCEPT ![c].pc = "bcrypt"]
          /\ UNCHANGED <<call, kept>>
       \/ \E imp \in BOOLEAN, rnd \in RandomOf(pending[c].op, pending[c].args) :
            LET others == {d \in 1..NumCallers :
                             /\ d # c
                             /\ pending[d] # NoPending
                             /\ pending[d].op = pending[c].op}
                args == IF others = {} THEN pending[c].args
                        ELSE pending[CHOOSE d \in others : TRUE].args
            IN /\ imp <=> pending[c].pc = "bcrypt"
               /\ call' = [call EXCEPT ![c] =
                             Done(pending[c].op, pending[c].args,
                                  BcryptEffect(pending[c].op, args, imp, rnd))]
               /\ pending' = [pending EXCEPT ![c] = NoPending]
               /\ UNCHANGED kept

\* an await of a suspended call settles: the import, then the library call
Resume ==
  \E c \in 1..NumCallers :
    /\ pending[c] # NoPending
    /\ \/ /\ pending[c].pc = "import"
          /\ pending' = [pending EXCEPT ![c].pc = "bcrypt"]
          /\ UNCHANGED <<call, kept>>
       \/ \E imp \in BOOLEAN, rnd \in RandomOf(pending[c].op, pending[c].args) :
            /\ imp <=> pending[c].pc = "bcrypt"
            /\ call' = [call EXCEPT ![c] =
                          Done(pending[c].op, pending[c].args,
                               BcryptEffect(pending[c].op, pending[c].args,
                                            imp, rnd))]
            /\ pending' = [pending EXCEPT ![c] = NoPending]
            /\ UNCHANGED kept

SpecConcurrent ==
  /\ call = [c \in 1..NumCallers |-> NoCall]
  /\ kept = NoKept
  /\ pending = [c \in 1..NumCallers |-> NoPending]
  /\ [][Begin \/ Resume]_vars

(***************************************************************************)
(* Vocabulary of the properties                                            *)
(***************************************************************************)
IsString(v) == v.t = "string"

\* a string of at least one character
NonEmptyString(v) == IsString(v) /\ Len(v.s) > 0

\* a string with a character that is not white space
HasContent(v) == IsString(v) /\ \E i \in 1..Len(v.s) : ~IsWhiteSpace(v.s[i])

\* a string in which every surrogate is half of a pair
WellFormed(v) ==
  /\ IsString(v)
  /\ \A i \in 1..Len(v.s) :
       /\ IsHighSurrogate(v.s[i]) => i < Len(v.s) /\ IsLowSurrogate(v.s[i + 1])
       /\ IsLowSurrogate(v.s[i]) => i > 1 /\ IsHighSurrogate(v.s[i - 1])

\* n bytes as a Buffer, or as 2n hexadecimal digits
IsMaterial(v, n) ==
  \/ v.t = "buffer" /\ Len(v.b) = n
  \/ /\ IsString(v)
     /\ Len(v.s) = 2 * n
     /\ \A i \in 1..Len(v.s) : IsHexDigit(v.s[i])

SameBytes(a, b) == BytesOf(a) = BytesOf(b)

ThrewClass(c, class) ==
  c.op # "none" /\ c.outcome.threw /\ c.outcome.error.name = class

\* the random source of the platform or the import of the library failed
PlatformFailed(c) ==
  /\ c.outcome.threw
  /\ c.outcome.error.cause.code \in {"MODULE_NOT_FOUND", "ERR_CRYPTO_OPERATION_FAILED"}

\* encrypt was called with a key and an IV of the right shape
SuppliedEncrypt ==
  /\ call.op = "encrypt"
  /\ IsMaterial(call.args[2], keyLength)
  /\ IsMaterial(call.args[3], ivLength)

\* decrypt was called with the ciphertext of the envelope the caller kept,
\* whose key and IV the caller had supplied
DecryptOfEnvelope ==
  /\ call.op = "decrypt"
  /\ kept.kind = "envelope"
  /\ call.args[1] = kept.result.encrypted
  /\ IsMaterial(kept.key, keyLength)
  /\ IsMaterial(kept.iv, ivLength)
  /\ IsMaterial(call.args[2], keyLength)
  /\ IsMaterial(call.args[3], ivLength)

\* ... with the key and the IV of the envelope, in whichever form
RoundTrip ==
  /\ DecryptOfEnvelope
  /\ SameBytes(call.args[2], kept.key)
  /\ SameBytes(call.args[3], kept.iv)

(***************************************************************************)
(* C1  Round trip                                                          *)
(***************************************************************************)
\* C1 as stated: for every non-empty string s and every 32-byte key and
\* 16-byte IV (Buffer or hex), encrypt succeeds and decrypting its ciphertext
\* with the same key and IV returns exactly s.
C1_RoundTripOfNonEmpty ==
  /\ SuppliedEncrypt /\ NonEmptyString(call.args[1]) => ~call.outcome.threw
  /\ RoundTrip /\ NonEmptyString(kept.data)
       => call.outcome = Returned(kept.data)

\* C1 amended: for every string s that has a character other than white space
\* and no unpaired surrogate, and every 32-byte key and 16-byte IV (Buffer or
\* hex), encrypt succeeds and decrypting its ciphertext with the same key and
\* IV returns exactly s.
C1_RoundTrip ==
  /\ SuppliedEncrypt /\ HasContent(call.args[1]) /\ WellFormed(call.args[1])
       => ~call.outcome.threw
  /\ RoundTrip /\ HasContent(kept.data) /\ WellFormed(kept.data)
       => call.outcome = Returned(kept.data)

\* C1 witness: a string with a character of several bytes came back from
\* decrypt, the key given to encrypt as a Buffer and to decrypt in hex
C1_Witness ==
  /\ RoundTrip
  /\ WellFormed(kept.data)
  /\ Len(Utf8Encode(kept.data.s)) > Len(kept.data.s)
  /\ kept.key.t = "buffer"
  /\ call.args[2].t = "string"
  /\ call.outcome = Returned(kept.data)

(***************************************************************************)
(* C2  Empty input                                                         *)
(***************************************************************************)
\* the call ended in a ValidationError itself, not in an error wrapping one
IsValidationError(c) ==
  /\ ThrewClass(c, "ValidationError")
  /\ c.outcome.error.code = "VALIDATION_ERROR"

\* C2 as stated: encrypt(""), hash("", 12) and decrypt("", key, iv) with a
\* valid key and IV each fail with a ValidationError (code VALIDATION_ERROR)
\* that reaches the caller unwrapped.
C2_EmptyInputRejected ==
  /\ call.op = "encrypt" /\ call.args[1] = Str(<<>>) => IsValidationError(call)
  /\ call.op = "hash" /\ call.args = <<Str(<<>>), Num(12)>>
       => IsValidationError(call)
  /\ /\ call.op = "decrypt"
     /\ call.args[1] = Str(<<>>)
     /\ IsMaterial(call.args[2], keyLength)
     /\ IsMaterial(call.args[3], ivLength)
     => IsValidationError(call)

(***************************************************************************)
(* C3  Key and IV length                                                   *)
(***************************************************************************)
\* a Buffer or a string that does not stand for n bytes
WrongLength(v, n) == v.t \in {"buffer", "string"} /\ ~IsMaterial(v, n)

IsInvalidKeyError(c) ==
  /\ ThrewClass(c, "InvalidKeyError")
  /\ c.outcome.error.code = "INVALID_KEY_ERROR"

\* C3 as stated: with valid data, encrypt fails with InvalidKeyError for every
\* key other than undefined (Buffer or hex string) that does not decode to 32
\* bytes and for every iv other than undefined that does not decode to 16
\* bytes, and returns no result.
C3_KeyLengthEnforced ==
  call.op = "encrypt" /\ HasContent(call.args[1])
    /\ (WrongLength(call.args[2], keyLength) \/ WrongLength(call.args[3], ivLength))
    /\ ~PlatformFailed(call)
    => IsInvalidKeyError(call)

(***************************************************************************)
(* C4  Wrong key, wrong IV                                                 *)
(***************************************************************************)
\* C4 as stated: decrypting the ciphertext of encrypt(s, k, v) with a valid
\* key other than k and v, or with k and a valid IV other than v, fails with
\* DecryptionError and never returns a string.
C4_WrongMaterialRejected ==
  /\ DecryptOfEnvelope
  /\ \/ ~SameBytes(call.args[2], kept.key) /\ SameBytes(call.args[3], kept.iv)
     \/ SameBytes(call.args[2], kept.key) /\ ~SameBytes(call.args[3], kept.iv)
  => ThrewClass(call, "DecryptionError")

(***************************************************************************)
(* C5  Stages of decrypt                                                   *)
(***************************************************************************)
\* a non-empty string made only of hexadecimal digits
IsHexText(v) ==
  /\ IsString(v)
  /\ Len(v.s) > 0
  /\ \A i \in 1..Len(v.s) : IsHexDigit(v.s[i])

\* C5 as stated: decrypt fails with ValidationError when encryptedData is not
\* a non-empty string of hexadecimal digits, with InvalidKeyError when the key
\* or the iv is not well-formed hex or not of 32/16 bytes, and with
\* DecryptionError only when the decipher operation itself fails after the
\* three inputs passed validation.
C5_DecryptStages ==
  call.op = "decrypt" =>
    /\ ~IsHexText(call.args[1]) => IsValidationError(call)
    /\ /\ IsHexText(call.args[1])
       /\ \/ WrongLength(call.args[2], keyLength)
          \/ WrongLength(call.args[3], ivLength)
       => IsInvalidKeyError(call)
    /\ ThrewClass(call, "DecryptionError") =>
         /\ IsHexText(call.args[1])
         /\ ~WrongLength(call.args[2], keyLength)
         /\ ~WrongLength(call.args[3], ivLength)
         /\ Len(call.ext) > 0
         /\ call.ext[1] = "createDecipheriv"

(***************************************************************************)
(* C10  Fail fast                                                          *)
(***************************************************************************)
\* C10 as stated: a call of encrypt, decrypt, hash, hashSync, compare,
\* compareSync, genSalt or getSaltRounds that ends in a ValidationError or an
\* InvalidKeyError has made no external cryptographic call (random bytes,
\* cipher or decipher creation, bcrypt import or operation) before the error.
C10_FailFast ==
  ThrewClass(call, "ValidationError") \/ ThrewClass(call, "InvalidKeyError")
    => call.ext = <<>>

(***************************************************************************)
(* Vocabulary of the properties of BcryptService                           *)
(***************************************************************************)
\* a finite integer number from 4 to 31
IsRounds(v) ==
  /\ v.t = "number"
  /\ v.kind = "finite"
  /\ v.twice % 2 = 0
  /\ v.twice \div 2 \in 4..31

\* $2[aby]$<2 digits>$<53 chars of [./A-Za-z0-9]>
MatchesGrammar(h) ==
  /\ Len(h) = 60
  /\ \E version \in {97, 98, 121}, d1 \in 48..57, d2 \in 48..57 :
       SubSeq(h, 1, 7) = <<36, 50, version, 36, d1, d2, 36>>
  /\ \A i \in 8..60 :
       h[i] \in {46, 47} \cup (48..57) \cup (65..90) \cup (97..122)

\* the bytes of a string that bcrypt takes into account
KeyOf(v) == bcryptKeyStream(Utf8Encode(v.s))

\* compare was called with the hash of cost 12 the caller kept
CompareOfHash ==
  /\ call.op = "compare"
  /\ kept.kind = "hash"
  /\ kept.rounds = Num(12)
  /\ call.args[2] = kept.hash
  /\ ~PlatformFailed(call)

(***************************************************************************)
(* C6  Verification of a hash                                              *)
(***************************************************************************)
\* C6 as stated: for every non-empty password p, hash(p, 12) gives a hash and
\* compare(p, hash(p, 12)) resolves to true, and for every non-empty q other
\* than p compare(q, hash(p, 12)) resolves to false.
C6_CompareTellsPasswords ==
  /\ call.op = "hash" /\ NonEmptyString(call.args[1]) /\ call.args[2] = Num(12)
       /\ ~PlatformFailed(call)
       => ~call.outcome.threw
  /\ CompareOfHash /\ NonEmptyString(call.args[1])
       => call.outcome = Returned(Bool(call.args[1] = kept.data))

\* C6 amended: for every password p that has a character other than white
\* space, hash(p, 12) gives a hash and compare(p, hash(p, 12)) resolves to
\* true, and for every q that has a character other than white space
\* compare(q, hash(p, 12)) resolves to false, not to an error, unless q and p
\* give bcrypt the same key (the first 72 bytes of the UTF-8 encoding followed
\* by a NUL byte, taken cyclically), when it resolves to true.
C6_CompareTellsKeys ==
  /\ call.op = "hash" /\ HasContent(call.args[1]) /\ call.args[2] = Num(12)
       /\ ~PlatformFailed(call)
       => ~call.outcome.threw
  /\ CompareOfHash /\ HasContent(call.args[1])
       => call.outcome = Returned(Bool(KeyOf(call.args[1]) = KeyOf(kept.data)))

\* C6 witness: compare resolved to false for a password other than the hashed
\* one, both of several characters
C6_Witness ==
  /\ CompareOfHash
  /\ HasContent(call.args[1])
  /\ Len(call.args[1].s) > 1
  /\ Len(kept.data.s) > 1
  /\ call.args[1] # kept.data
  /\ call.outcome = Returned(Bool(FALSE))

(***************************************************************************)
(* C7  Malformed hashes                                                    *)
(***************************************************************************)
\* C7: for every string h that does not match the grammar
\* $2[aby]$<2 digits>$<53 chars of [./A-Za-z0-9]>, compare(data, h),
\* compareSync(data, h) and getSaltRounds(h) fail with ValidationError: they
\* are not suspended at the library and resolve to no value.
C7_MalformedHashRejected ==
  /\ call.op \in {"compare", "compareSync"}
       /\ IsString(call.args[2]) /\ ~MatchesGrammar(call.args[2].s)
       => IsValidationError(call)
  /\ call.op = "getSaltRounds"
       /\ IsString(call.args[1]) /\ ~MatchesGrammar(call.args[1].s)
       => IsValidationError(call)
  /\ pending.op \in {"compare", "compareSync"} /\ IsString(pending.args[2])
       => MatchesGrammar(pending.args[2].s)
  /\ pending.op = "getSaltRounds" /\ IsString(pending.args[1])
       => MatchesGrammar(pending.args[1].s)

\* C7 witness: compareSync refused, for valid data, a hash followed by one
\* more character
C7_Witness ==
  /\ call.op = "compareSync"
  /\ HasContent(call.args[1])
  /\ IsString(call.args[2])
  /\ Len(call.args[2].s) = 61
  /\ MatchesGrammar(SubSeq(call.args[2].s, 1, 60))
  /\ IsValidationError(call)

(***************************************************************************)
(* C8  Cost of a hash                                                      *)
(***************************************************************************)
\* hash or hashSync ended for data and a cost from 4 to 31
HashOfRounds ==
  /\ call.op \in {"hash", "hashSync"}
  /\ IsRounds(call.args[2])
  /\ ~PlatformFailed(call)

\* getSaltRounds ended for the hash the caller kept
RoundsOfHash ==
  /\ call.op = "getSaltRounds"
  /\ kept.kind = "hash"
  /\ call.args[1] = kept.hash
  /\ ~PlatformFailed(call)

\* C8 as stated: for every integer r from 4 to 31 and every non-empty data,
\* hash(data, r) gives a hash that matches the grammar, and getSaltRounds of
\* it resolves to r.
C8_RoundsOfNonEmpty ==
  /\ HashOfRounds /\ NonEmptyString(call.args[1])
       => /\ ~call.outcome.threw
          /\ MatchesGrammar(call.outcome.value.s)
  /\ RoundsOfHash => call.outcome = Returned(kept.rounds)

\* C8 amended: for every integer r from 4 to 31 and every data that has a
\* character other than white space, hash(data, r) gives a hash that matches
\* the grammar, and getSaltRounds of it resolves to r.
C8_RoundsRoundTrip ==
  /\ HashOfRounds /\ HasContent(call.args[1])
       => /\ ~call.outcome.threw
          /\ MatchesGrammar(call.outcome.value.s)
  /\ RoundsOfHash => call.outcome = Returned(kept.rounds)

\* C8 witness: getSaltRounds resolved to 31 for a hash of cost 31
C8_Witness ==
  /\ RoundsOfHash
  /\ kept.rounds = Num(31)
  /\ call.outcome = Returned(Num(31))

IsHexOfLen(v, n) == IsHexText(v) /\ Len(v.s) = n

\* C11: every successful encrypt or encryptSync call, with the key and the IV
\* supplied or generated, returns a key of exactly 64 hexadecimal characters,
\* an IV of exactly 32, and a ciphertext that is a non-empty hexadecimal string
\* of even length.
C11_OutputShape ==
  call.op \in {"encrypt", "encryptSync"} /\ ~call.outcome.threw
    => /\ IsHexOfLen(call.outcome.value.key, 2 * keyLength)
       /\ IsHexOfLen(call.outcome.value.iv, 2 * ivLength)
       /\ IsHexText(call.outcome.value.encrypted)
       /\ Len(call.outcome.value.encrypted.s) % 2 = 0

\* C11 witness: encrypt succeeded with the key and the IV generated
C11_Witness ==
  /\ call.op = "encrypt"
  /\ call.args[2] = Undefined
  /\ call.args[3] = Undefined
  /\ ~call.outcome.threw

(***************************************************************************)
(* C12  The ciphertext varies with the IV                                  *)
(***************************************************************************)
\* encrypt succeeded on the data of the envelope the caller kept, under the
\* same key
EncryptOfEnvelope ==
  /\ call.op = "encrypt"
  /\ ~call.outcome.threw
  /\ kept.kind = "envelope"
  /\ call.args[1] = kept.data
  /\ call.outcome.value.key = kept.result.key

\* C12: two successful encrypt calls on the same data under the same key and
\* under IVs that differ (as bytes, whatever the form they were given in)
\* return different ciphertexts.
C12_CiphertextVariesWithIv ==
  EncryptOfEnvelope /\ call.outcome.value.iv # kept.result.iv
    => call.outcome.value.encrypted # kept.result.encrypted

\* C12 witness: the second call supplied the key of the first and an IV that
\* differs from the first in one byte
C12_Witness ==
  /\ EncryptOfEnvelope
  /\ IsMaterial(call.args[2], keyLength)
  /\ kept.iv = Buf(Iv1)
  /\ call.args[3] = Buf(Iv2)


(***************************************************************************)
(* C14, C15: what the generators return                                    *)
(***************************************************************************)
GeneratorCall(op) == call.op = op /\ ~call.outcome.threw

\* a string of n hexadecimal digits
HexStringOf(v, n) ==
  /\ IsString(v)
  /\ Len(v.s) = n
  /\ \A i \in 1..n : IsHexDigit(v.s[i])

IsBufferOf(v, n) == v.t = "buffer" /\ Len(v.b) = n

\* the length a utility generator works with: its argument, or its default
LengthOf(default) ==
  IF call.args[1] = Undefined THEN default ELSE call.args[1].twice \div 2

\* C14 (as docs/api/utilities.md states it): generateAesKey() returns a
\* Buffer of 32 bytes, generateAesIv() a Buffer of 16 bytes and
\* generateSecret(n) a Buffer of n bytes, 32 by default.
C14_BuffersAsDocumented ==
  /\ GeneratorCall("generateAesKey")
       => IsBufferOf(call.outcome.value, LengthOf(32))
  /\ GeneratorCall("generateAesIv")
       => IsBufferOf(call.outcome.value, LengthOf(16))
  /\ GeneratorCall("generateSecret")
       => IsBufferOf(call.outcome.value, LengthOf(32))

\* encrypt called with what a generator returned for its default length
EncryptWithGenerated ==
  /\ call.op = "encrypt"
  /\ kept.kind = "generated"
  /\ kept.length = Undefined

EvenHexString(v) ==
  /\ IsString(v)
  /\ Len(v.s) % 2 = 0
  /\ \A i \in 1..Len(v.s) : IsHexDigit(v.s[i])

\* the bytes b are the material v: the bytes of a Buffer, or the bytes that
\* the hexadecimal digits of a string spell, whatever the case of the digits
IsTheMaterial(b, v) ==
  IF v.t = "buffer" THEN b = v.b
  ELSE UpperHex(HexEncode(b)) = UpperHex(v.s)

\* the number of bytes of a Buffer or of an even hexadecimal string
ByteLength(v) == IF v.t = "buffer" THEN Len(v.b) ELSE Len(v.s) \div 2

\* C16: validateAndConvertToBuffer(value, field, L) returns undefined iff
\* value is undefined; a string that is not made of hexadecimal digits only
\* or has odd length fails with InvalidKeyError; a Buffer it returns is the
\* input bytes (or the hex decoding of the input) unchanged, and has exactly
\* L bytes when L is given; a length other than L is an InvalidKeyError.
C16_Normalization ==
  call.op = "validateAndConvertToBuffer"
    => LET value == call.args[1]
           L == call.args[2]
           out == call.outcome
       IN /\ (~out.threw /\ out.value = Undefined) <=> value = Undefined
          /\ IsString(value) /\ ~EvenHexString(value)
               => ThrewClass(call, "InvalidKeyError")
          /\ ~out.threw /\ value # Undefined
               => /\ out.value.t = "buffer"
                  /\ IsTheMaterial(out.value.b, value)
                  /\ L # Undefined => Num(Len(out.value.b)) = L
          /\ (/\ value.t = "buffer" \/ EvenHexString(value)
              /\ L # Undefined
              /\ Num(ByteLength(value)) # L)
               => ThrewClass(call, "InvalidKeyError")

C16_Witness ==
  /\ call.op = "validateAndConvertToBuffer"
  /\ call.args = <<Str(UpperHex(HexEncode(Iv1))), Num(ivLength)>>
  /\ call.outcome = Returned(Buf(Iv1))


(***************************************************************************)
(* C17  Non-empty-string check                                             *)
(***************************************************************************)
\* C17: validateNonEmptyString(value, field) fails with ValidationError
\* exactly when value is not a string or is a string of white space only
\* (the empty string included), the message then contains the field name,
\* and otherwise it returns nothing; encrypt, hash and compare reject data
\* made of white space only.
C17_NonEmptyString ==
  /\ call.op = "validateNonEmptyString"
       => LET value == call.args[1]
              out == call.outcome
          IN IF HasContent(value)
               THEN out = Returned(Undefined)
               ELSE /\ ThrewClass(call, "ValidationError")
                    /\ \E i \in 1..Len(out.error.message) :
                         out.error.message[i] = call.args[2]
  /\ (/\ call.op \in {"encrypt", "hash", "compare"}
      /\ IsString(call.args[1])
      /\ ~HasContent(call.args[1]))
       => call.outcome.threw

C17_Witness ==
  /\ call.op = "validateNonEmptyString"
  /\ call.args[1] = Str(<<9, 10, 160>>)
  /\ ThrewClass(call, "ValidationError")


(***************************************************************************)
(* C18  Service toggles                                                    *)
(***************************************************************************)
\* the module that a registration call returned has the provider among its
\* providers and among its exports
Registers(provider) ==
  /\ \E i \in 1..Len(call.outcome.value.providers) :
       call.outcome.value.providers[i] = provider
  /\ \E i \in 1..Len(call.outcome.value.exports) :
       call.outcome.value.exports[i] = provider

\* the module has it neither among its providers nor among its exports
LeavesOut(provider) ==
  /\ \A i \in 1..Len(call.outcome.value.providers) :
       call.outcome.value.providers[i] # provider
  /\ \A i \in 1..Len(call.outcome.value.exports) :
       call.outcome.value.exports[i] # provider

\* the flag of the options in effect is false
SwitchedOff(flag) == kept.options # Undefined /\ kept.options[flag] = Bool(FALSE)

\* C18 (as stated): for forRoot, forRootAsync and forFeature, the module has
\* the BcryptService among its providers and exports unless the options in
\* effect have useBcrypt === false, and then it has it among neither; the
\* same for the AesService and useAes.
C18_ServiceToggles ==
  call.op \in {"forRoot", "forRootAsync", "forFeature"}
    => /\ IF SwitchedOff("useBcrypt") THEN LeavesOut("BcryptService")
          ELSE Registers("BcryptService")
       /\ IF SwitchedOff("useAes") THEN LeavesOut("AesService")
          ELSE Registers("AesService")

(***************************************************************************)
(* C19  Default cost factor                                                *)
(***************************************************************************)
\* C19 (as stated): hash(data) without saltRounds, on the BcryptService of
\* a module configured with bcryptSaltRounds = r, returns a hash of cost r.
C19_DefaultCostFactor ==
  (/\ call.op = "hash"
   /\ kept.kind = "module"
   /\ kept.options # Undefined
   /\ kept.options.bcryptSaltRounds = Num(10)
   /\ call.args[2] = Undefined
   /\ ~PlatformFailed(call))
    => /\ ~call.outcome.threw
       /\ MatchesGrammar(call.outcome.value.s)
       /\ SubSeq(call.outcome.value.s, 5, 6) = <<49, 48>>


(***************************************************************************)
(* C20  Sync variants                                                      *)
(***************************************************************************)
\* the other variant of a BcryptService method
VariantOf(op) ==
  CASE op = "hash" -> "hashSync"
    [] op = "hashSync" -> "hash"
    [] op = "compare" -> "compareSync"
    [] op = "compareSync" -> "compare"

\* two outcomes agree: both return, the same value, or both throw an error
\* of the same class
SameVerdict(a, b) ==
  /\ a.threw = b.threw
  /\ a.threw => a.error.name = b.error.name
  /\ ~a.threw => a.value = b.value

\* what the import and the random source can do for the other variant of
\* the call that ended: the import fails, or it succeeds and the random
\* source gives one of its outcomes
OutcomesForVariant ==
  {<<FALSE, [ok |-> TRUE, seed |-> 1]>>}
    \cup ({TRUE} \X RandomOf(VariantOf(call.op), call.args))

\* C20: hash and hashSync, and compare and compareSync, accept and reject
\* the same inputs with the same error class: however a call of one variant
\* ended, the other variant can end with the same verdict for the same
\* arguments; encryptSync and decryptSync return or throw what encrypt and
\* decrypt do for the same arguments and the same random bytes.
C20_SyncVariants ==
  /\ call.op \in {"hash", "hashSync", "compare", "compareSync"}
       => \E e \in OutcomesForVariant :
            SameVerdict(BcryptEffect(VariantOf(call.op), call.args,
                                     e[1], e[2]).outcome,
                        call.outcome)
  /\ call.op = "encryptSync"
       => \E rndKey \in RandomFor(call.args[2]),
             rndIv \in RandomFor(call.args[3]) :
            encrypt(call.args[1], call.args[2], call.args[3],
                    rndKey, rndIv).outcome = call.outcome
  /\ call.op = "decryptSync"
       => decrypt(call.args[1], call.args[2], call.args[3]).outcome
            = call.outcome

C20_Witness ==
  /\ call.op = "decryptSync"
  /\ kept.kind = "envelope"
  /\ call.args = <<kept.result.encrypted, kept.result.key, kept.result.iv>>
  /\ call.outcome = Returned(kept.data)


(***************************************************************************)
(* C21  No key caching                                                     *)
(***************************************************************************)
\* the hex string is that of n bytes which the random source can give
DrawnFromRandom(hex, n) ==
  \E rnd \in RandomOutcomes :
    rnd.ok /\ hex = Str(HexEncode(RandomBytesOf(rnd.seed, n)))

\* the number of calls of randomBytes among the external calls of the call
RandomCalls == Cardinality({i \in 1..Len(call.ext) : call.ext[i] = "randomBytes"})

\* encrypt ended well, called again by a caller that kept an envelope
LaterEncrypt ==
  /\ EncryptOfEnvelope
  /\ call.args # <<kept.data, kept.key, kept.iv>>

EndsAsAlone(c) ==
  LET op == call[c].op
      args == call[c].args
  IN CASE op = "encrypt" ->
            \E rndKey \in RandomFor(args[2]), rndIv \in RandomFor(args[3]) :
              call[c] = Done(op, args, encrypt(args[1], args[2], args[3],
                                               rndKey, rndIv))
       [] op = "decrypt" ->
            call[c] = Done(op, args, decrypt(args[1], args[2], args[3]))
       [] OTHER ->
            \E imp \in BOOLEAN, rnd \in RandomOf(op, args) :
              call[c] = Done(op, args, BcryptEffect(op, args, imp, rnd))

CodeOfClass ==
  [ValidationError |-> "VALIDATION_ERROR",
   InvalidKeyError |-> "INVALID_KEY_ERROR",
   EncryptionError |-> "ENCRYPTION_ERROR",
   DecryptionError |-> "DECRYPTION_ERROR",
   HashingError |-> "HASHING_ERROR"]

\* the methods of AesService and of BcryptService, and the generators
PublicOperations ==
  {"encrypt", "decrypt", "encryptSync", "decryptSync", "generateKey",
   "generateIv", "hash", "hashSync", "compare", "compareSync", "genSalt",
   "getSaltRounds", "generateAesKey", "generateAesIv", "generateSecret"}

\* the error is an instance of one of the five classes, with its code
IsTyped(e) ==
  /\ e.name \in DOMAIN CodeOfClass
  /\ e.code = CodeOfClass[e.name]

\* C23 as stated: every failure of a method of AesService or BcryptService
\* and of generateAesKey, generateAesIv and generateSecret is a
\* ValidationError, InvalidKeyError, EncryptionError, DecryptionError or
\* HashingError with the code of its class; an error of the platform or of
\* the library reaches the caller only wrapped, as the cause of the
\* EncryptionError, DecryptionError or HashingError that is thrown.
C23_OnlyTypedErrors ==
  call.op \in PublicOperations /\ call.outcome.threw
    => /\ IsTyped(call.outcome.error)
       /\ call.outcome.error.name
              \in {"EncryptionError", "DecryptionError", "HashingError"}
            => call.outcome.error.cause # NoCause


(***************************************************************************)
(* C24  Generic decryption error                                           *)
(***************************************************************************)
\* what the messages of encrypt and decrypt are made of: the texts of the
\* templates, the name of the argument, and byte counts
MessageParts ==
  {"key", "IV", " must be a valid hexadecimal string",
   " hex string must have even length", " must be ", " bytes, received ",
   " bytes", "Failed to encrypt data", "Failed to generate AES key",
   "Failed to generate initialization vector",
   "Failed to decrypt data. Ensure the key, IV, and encrypted data are correct."}
    \cup {ToString(n) : n \in 0..(2 * keyLength)}

\* C24: every DecryptionError thrown by decrypt has the same fixed message,
\* whatever the key, the IV and the ciphertext, and the message of every
\* error of encrypt and decrypt is made of fixed text, the name of the
\* argument and byte counts only: no part of it is the value of an argument.
C24_GenericDecryptionError ==
  /\ call.op \in {"decrypt", "decryptSync"} /\ ThrewClass(call, "DecryptionError")
       => call.outcome.error.message =
            <<"Failed to decrypt data. Ensure the key, IV, and encrypted data are correct.">>
  /\ call.op \in {"encrypt", "decrypt", "encryptSync", "decryptSync"}
       /\ call.outcome.threw
       => \A i \in DOMAIN call.outcome.error.message :
            call.outcome.error.message[i] \in MessageParts

\* decrypt of a ciphertext under a key other than the one it was made with
\* failed in the decipher step
C24_Witness ==
  /\ call.op = "decrypt"
  /\ kept.kind = "envelope"
  /\ call.args[1] = kept.result.encrypted
  /\ call.args[2] # kept.result.key
  /\ ThrewClass(call, "DecryptionError")
  /\ call.outcome.error.cause.code = "ERR_OSSL_BAD_DECRYPT"


(***************************************************************************)
(* C25  Weak-rounds warning                                                *)
(***************************************************************************)
\* the number of warning-level entries the call logged
Warnings ==
  Cardinality({i \in 1..Len(call.logs) : call.logs[i].level = "warn"})

C26_DecryptRequiresMaterial ==
  /\ call.op \in {"decrypt", "decryptSync"}
  /\ call.args[2] = Undefined \/ call.args[3] = Undefined
  => /\ call.outcome.threw
     /\ \A i \in 1..Len(call.ext) :
          call.ext[i] \notin {"randomBytes", "decipher.update", "decipher.final"}
     /\ IsValidationError(call) \/ IsInvalidKeyError(call)


(***************************************************************************)
(* C27  Uniform hex checking                                               *)
(***************************************************************************)
\* a string of an odd number of hexadecimal digits
OddHexString(v) ==
  /\ IsString(v)
  /\ Len(v.s) % 2 = 1
  /\ \A i \in 1..Len(v.s) : IsHexDigit(v.s[i])

\* C27 as stated: encrypt and decrypt reject a key or an IV, and decrypt an
\* encryptedData, that is a hexadecimal string of odd length, during
\* validation: the call fails and no cipher or decipher was created.
C27_UniformHexChecking ==
  /\ call.op \in {"encrypt", "decrypt", "encryptSync", "decryptSync"}
  /\ \/ OddHexString(call.args[2])
     \/ OddHexString(call.args[3])
     \/ call.op \in {"decrypt", "decryptSync"} /\ OddHexString(call.args[1])
  => /\ call.outcome.threw
     /\ \A i \in 1..Len(call.ext) :
          call.ext[i] \notin {"createCipheriv", "cipher.update", "cipher.final",
                              "createDecipheriv", "decipher.update",
                              "decipher.final"}


(***************************************************************************)
(* C28  Supplied material is echoed                                        *)
(***************************************************************************)
\* hex is the lower-case hexadecimal text of the material v
LowerHexOf(hex, v) ==
  /\ IsString(hex)
  /\ \A i \in 1..Len(hex.s) : hex.s[i] \in (48..57) \cup (97..102)
  /\ IF v.t = "buffer" THEN HexDecode(hex.s) = v.b
     ELSE UpperHex(hex.s) = UpperHex(v.s)

\* the key or the IV was given as hexadecimal digits of both cases
MixedCase(v) ==
  /\ IsString(v)
  /\ \E i \in 1..Len(v.s) : v.s[i] \in 65..70
  /\ \E i \in 1..Len(v.s) : v.s[i] \in 97..102

\* C28: when encrypt succeeds with a key of 32 bytes and an IV of 16 bytes
\* that the caller supplied, as Buffers or as hexadecimal strings of
\* whichever case, result.key and result.iv are the lower-case hexadecimal
\* text of exactly those bytes, and a decrypt with what encrypt returned runs
\* under the key and the IV of the caller.
C28_SuppliedMaterialEchoed ==
  /\ SuppliedEncrypt /\ ~call.outcome.threw
       => /\ LowerHexOf(call.outcome.value.key, call.args[2])
          /\ LowerHexOf(call.outcome.value.iv, call.args[3])
  /\ (/\ DecryptOfEnvelope
      /\ call.args = <<kept.result.encrypted, kept.result.key, kept.result.iv>>)
       => /\ SameBytes(call.args[2], kept.key)
          /\ SameBytes(call.args[3], kept.iv)
          /\ ~IsInvalidKeyError(call)

\* encrypt returned for a key in upper case and an IV in both cases
C28_Witness ==
  /\ SuppliedEncrypt
  /\ ~call.outcome.threw
  /\ call.args[2] = Str(UpperHex(HexEncode(Key1)))
  /\ MixedCase(call.args[3])
  /\ call.outcome.value.key = Str(HexEncode(Key1))

====
